---- MODULE Spec2Model ----
(***************************************************************************)
(* A model of the "saint" terminal-UI toolkit of ghd: the Table widget     *)
(* (selection, scrolling, column widths, keyboard navigation and           *)
(* painting), the flex layout of the Widget tree, the Signal classes, the  *)
(* dispatch of keys through the widget tree, the focus among a widget's    *)
(* children, Widget.out, StatusBar, MultiView, MessageBox, Timer,          *)
(* init_signals, and the application loop of gui_main with its MainWindow. *)
(*                                                                         *)
(* Python values are modelled as follows: a str is a sequence of tokens,   *)
(* where the token ESC stands for one complete terminal escape sequence    *)
(* (zero printable width); None and the booleans returned by handlers are  *)
(* the strings "None", "True", "False"; a raised exception is the name of  *)
(* its class.                                                              *)
(***************************************************************************)
EXTENDS Integers, Sequences, FiniteSets, TLC

VARIABLES
    data,            \* Table._data: the row set
    selected_index,  \* Table._selected_index
    view_offset,     \* Table._view_offset
    widths,          \* Table._widths
    left_column,     \* Table._left_column
    size_x,          \* Widget.size_x of the table
    size_y,          \* Widget.size_y of the table
    focus_index,     \* Widget.focus_index of the table
    tree,            \* the widget tree of the layout: id -> widget fields
    flex_call,       \* the last _flex_offsets call: its inputs and its result
    ret,             \* what the last operation returned or raised
    signal_class,    \* the class of the signal: "Signal" or "AsyncSignal"
    handlers,        \* _SignalBase._handlers, entries in the order they were added
    lifetime,        \* per owner of a callable: live, garbage or collected
    task,            \* the AsyncSignal.emit call in flight
    outcome,         \* what the last signal operation did, returned or raised
    signals,         \* AsyncSignals._signals: key -> the signal stored under it
    ui,              \* the widgets that keys are dispatched through
    received,        \* the last on_input: the key and the widgets it reached
    screen,          \* ScreenBuffer.buffer: what the widgets printed, in order
    multiview,       \* the MultiView: current_view, views, its last operation
    timer,           \* the Timer: _stopped and _handle
    loop,            \* the event loop of the timer: clock, handles and tasks
    obj,             \* a widget under construction: its classes and attributes
    main             \* gui_main and its MainWindow: the application loop

tableVars == <<data, selected_index, view_offset, widths, left_column,
               size_x, size_y, focus_index>>
signalVars == <<signal_class, handlers, lifetime, task, outcome>>
uiVars == <<ui, received>>
widgetVars == <<screen, multiview>>
timerVars == <<timer, loop>>
appVars == <<obj, main>>
vars == <<data, selected_index, view_offset, widths, left_column,
          size_x, size_y, focus_index, tree, flex_call, ret, signalVars,
          signals, uiVars, widgetVars, timerVars, appVars>>

----------------------------------------------------------------------------
(* Bounds of the model *)

MaxRows == 3
MaxHeight == 4
MaxLeft == 2
MaxWidgets == 4
MaxFlex == 2
MaxExtent == 7
MaxRegistered == 4
MaxFocusWidgets == 6
MaxPrinted == 2
MaxChoices == 3
MaxTime == 10
MaxCalls == 6

----------------------------------------------------------------------------
(* Signal, AsyncSignal: the state after construction *)

\* The callables a caller hands to a signal: "m" is a bound method of an
\* object, "f" a callable without __self__ (a function, a closure or a
\* callable object), "other" a second signal object and "self" the signal
\* itself.
Callables == {"m", "f", "other", "self"}

\* the callables whose last strong reference the caller can drop; the two
\* signal objects stay referenced
Owners == {"m", "f"}

\* no emit of the AsyncSignal is in flight
NoTask == [state |-> "idle", args |-> "None", calls |-> <<>>, pending |-> {},
           completed |-> <<>>]

\* no signal operation has been made yet
NoOutcome == [op |-> "None", raised |-> "None", args |-> "None", before |-> 0,
              calls |-> <<>>, results |-> <<>>]

\* _SignalBase.__init__: an empty handler set; every callable is referenced
\* by the caller
SignalInit ==
    /\ handlers = <<>>
    /\ lifetime = [o \in Owners |-> "live"]
    /\ task = NoTask
    /\ outcome = NoOutcome

\* AsyncSignals.__init__: no key has a signal yet
NoSignals == [k \in {} |-> 0]

\* no key has been dispatched yet
NoKey == [code |-> "None", str |-> ""]
NoInput == [key |-> NoKey, truthy |-> {}, slot |-> FALSE, chain |-> <<>>,
            emitted |-> <<>>]

\* the signal table and the widgets of a program that has neither
NoWidgets ==
    /\ signals = NoSignals
    /\ ui = <<>>
    /\ received = NoInput

\* MultiView.__init__: no current view and no registered views; switched
\* holds the on_view_switched emissions of the last show and raised the
\* exception that left it
NewMultiView == [current_view |-> "None", views |-> [k \in {} |-> 0],
                 switched |-> <<>>, raised |-> "None"]

\* Timer.__init__: stopped, without a handle. The event loop has scheduled
\* nothing, the callback has not been invoked and start has not been called.
NoHandle == [state |-> "None", when |-> 0]
NewTimer == [stopped |-> TRUE, handle |-> NoHandle]
NewLoop == [now |-> 0, scheduled |-> <<>>, call_count |-> 0, tasks |-> 0,
            starts |-> 0, started_at |-> 0]

\* the classes every widget derives from, as far as init_signals reads them:
\* whether the class is a subclass of Widget, whether its body defines
\* __init__, and the annotations of its body as pairs of a name and the
\* annotating object, "Signal" standing for Widget.Signal. The body of Widget
\* holds the annotated assignment Signal: SaintSignal = SaintSignal.
ObjectClass ==
    [name |-> "object", is_widget |-> FALSE, has_init |-> TRUE,
     annotations |-> <<>>]
WidgetClass ==
    [name |-> "Widget", is_widget |-> TRUE, has_init |-> TRUE,
     annotations |-> << <<"Signal", "Signal">> >>]

\* an object of class Widget before init_signals: the classes of
\* type(obj).__mro__[::-1], its instance attributes and its on table
NewObject ==
    [mro |-> <<ObjectClass, WidgetClass>>, attrs |-> [k \in {} |-> 0],
     on |-> [k \in {} |-> 0], raised |-> "None"]

\* gui_main has not been called: no MainWindow, no pending callback of the
\* event loop, no key-reading worker
NoApp ==
    [pc |-> "None", resized |-> FALSE, term |-> <<0, 0>>, layout |-> <<0, 0>>,
     painted |-> <<0, 0>>, sigwinch |-> 0, paint_tasks |-> 0,
     worker |-> "idle", key |-> "None"]

\* ScreenBuffer.__init__ with the construction of a MultiView and a Timer
\* that are not used
NoViewsNoTimer ==
    /\ screen = <<>>
    /\ multiview = NewMultiView
    /\ timer = NewTimer
    /\ loop = NewLoop
    /\ obj = NewObject
    /\ main = NoApp

----------------------------------------------------------------------------
(* Python builtins *)

PyMin(a, b) == IF a <= b THEN a ELSE b
PyMax(a, b) == IF a >= b THEN a ELSE b

\* seq[i:] of a list
SliceFrom(s, i) == IF i >= Len(s) THEN <<>> ELSE SubSeq(s, i + 1, Len(s))

\* seq[:n] of a str, n >= 0
SliceTo(s, n) == SubSeq(s, 1, PyMin(n, Len(s)))

RECURSIVE Sum(_)
Sum(s) == IF s = <<>> THEN 0 ELSE Head(s) + Sum(Tail(s))

\* max(*values) of a non-empty list
RECURSIVE MaxOf(_)
MaxOf(s) == IF Len(s) = 1 THEN s[1] ELSE PyMax(s[1], MaxOf(Tail(s)))

----------------------------------------------------------------------------
(* Table: columns, rows and cells *)

ESC == "ESC"

\* blessed.sequences.Sequence(text, term).length(): the printable length
RECURSIVE SeqLength(_)
SeqLength(s) ==
    IF s = <<>> THEN 0
    ELSE (IF Head(s) = ESC THEN 0 ELSE 1) + SeqLength(Tail(s))

column_padding == 2
CalcMaxLength == 10000

\* the titles of the columns the table is constructed with
Titles == << <<"R", "e", "f">>, <<"S", "t", "a", "t", "e">> >>
NumColumns == Len(Titles)

\* the row records the data provider can supply: one cell text per column
RowMain == << <<"m", "a", "i", "n">>, <<"o", "k">> >>
RowFail == << <<"v", "1">>, <<ESC, "f", "a", "i", "l", "e", "d", ESC>> >>

\* the provider's records, of which a query returns a contiguous run
Records == [i \in 1..MaxRows |-> IF i % 2 = 1 THEN RowMain ELSE RowFail]
RowSeqs == {<<>>} \cup {SubSeq(Records, i, j) : i \in 1..MaxRows, j \in 1..MaxRows}

\* Column.get(row, max_length) with Column.getter's default rendering
ColumnGet(c, row, max_length) == SliceTo(row[c], max_length)

\* Table._calc_widths: the width of column c for the given rows
ColumnWidth_NoTitle(c, rows) ==
    MaxOf(<<0>> \o [r \in 1..Len(rows) |->
                       SeqLength(ColumnGet(c, rows[r], CalcMaxLength))])
ColumnWidth(c, rows) ==
    MaxOf((<<0>> \o [r \in 1..Len(rows) |->
                        SeqLength(ColumnGet(c, rows[r], CalcMaxLength))])
          \o <<Len(Titles[c])>>)

CalcWidths(rows) == [c \in 1..NumColumns |-> ColumnWidth(c, rows)]

----------------------------------------------------------------------------
(* Table: selection and scrolling *)

\* set_selected_index, the clamping of the index
ClampIndex_NoUpper(index, n) == PyMax(0, index)
ClampIndex(index, n) == PyMax(0, PyMin(index, n - 1))

\* set_selected_index, the view offset that follows the selection
ScrollTo_NoHeader(sel, vo, height) ==
    LET row_on_screen == sel - vo
        visible_lines == height
    IN  IF row_on_screen >= visible_lines
        THEN PyMax(0, sel - (visible_lines - 1))
        ELSE IF row_on_screen < 0 THEN sel ELSE vo
ScrollTo(sel, vo, height) ==
    LET row_on_screen == sel - vo
        visible_lines == height - 1
    IN  IF row_on_screen >= visible_lines
        THEN PyMax(0, sel - (visible_lines - 1))
        ELSE IF row_on_screen < 0 THEN sel ELSE vo

\* the body of set_selected_index as a state change
set_selected_index(index) ==
    LET sel == ClampIndex(index, Len(data))
    IN  /\ selected_index' = sel
        /\ view_offset' = ScrollTo(sel, view_offset, size_y)

\* Table.on_resize, the view offset after the new size is in place
ResizeOffset(sel, vo, height) ==
    IF sel - vo < 0 THEN sel
    ELSE IF sel - vo >= height THEN sel - height ELSE vo

\* Table.selected_data
PyIndex(s, i) ==
    IF 0 <= i /\ i < Len(s) THEN [kind |-> "row", row |-> s[i + 1]]
    ELSE IF -Len(s) <= i /\ i < 0 THEN [kind |-> "row", row |-> s[Len(s) + i + 1]]
    ELSE [kind |-> "IndexError", row |-> <<>>]
SelectedData_NoExcept(rows, sel) == PyIndex(rows, sel)
SelectedData(rows, sel) ==
    LET r == PyIndex(rows, sel)
    IN  IF r.kind = "IndexError" THEN [kind |-> "None", row |-> <<>>] ELSE r
selected_data == SelectedData(data, selected_index)

\* Table._capped
Capped(ws, left, width) ==
    (column_padding
     + Len(SliceFrom(ws, left)) * column_padding
     + Sum(SliceFrom(ws, left))) > width

\* the rows the page keys move the selection by
PageStep_Full(height) == height - 1
PageStep(height) == height - 2

\* Widget.out: the text written at (x, y) reaches the screen unless the
\* position lies right of or below the widget
OutVisible(x, y, width, height) == ~(x >= width \/ y >= height)

\* Table._first_visible_row and Table._last_visible_row
FirstVisibleRow(vo) == vo
LastVisibleRow(vo, height, n) == PyMin(vo + height, n)

\* a bound of the Python slice s[i:j] on a sequence of n items, 0-based
SliceBound(i, n) == IF i < 0 THEN PyMax(i + n, 0) ELSE PyMin(i, n)

\* Table._visible_data, as the 0-based indices of the rows in
\* data[first_visible_row:last_visible_row]
VisibleData(vo, height, n) ==
    { i \in 0..(n - 1) :
        /\ SliceBound(FirstVisibleRow(vo), n) <= i
        /\ i < SliceBound(LastVisibleRow(vo, height, n), n) }

\* Table.on_paint: the rows that reach the screen. The k-th row of
\* _visible_data (k from 0) is written on line y = k + 1, below the header.
PaintedRows(vo, height, width, n) ==
    { i \in VisibleData(vo, height, n) :
        OutVisible(0, (i - SliceBound(FirstVisibleRow(vo), n)) + 1, width, height) }

\* Table.on_paint: the up arrow, written at (0, 1), and the down arrow,
\* written at (0, height - 1)
UpArrowDrawn(vo, height, width) ==
    FirstVisibleRow(vo) # 0 /\ OutVisible(0, 1, width, height)
DownArrowDrawn(vo, height, width, n) ==
    LastVisibleRow(vo, height, n) # n /\ OutVisible(0, height - 1, width, height)

----------------------------------------------------------------------------
(* Table: operations *)

DownKeys == {"KEY_DOWN", "j"}
UpKeys == {"KEY_UP", "k"}
PageDownKeys == {"KEY_NPAGE", "J"}
PageUpKeys == {"KEY_PPAGE", "K"}
LeftKeys == {"KEY_LEFT", "h"}
RightKeys == {"KEY_RIGHT", "l"}
SelectionKeys == DownKeys \cup UpKeys \cup PageDownKeys \cup PageUpKeys
                 \cup {"KEY_HOME", "KEY_END"}
NavKeys == SelectionKeys \cup LeftKeys \cup RightKeys
Keys == NavKeys \cup {"x"}

Indices == -1..MaxRows
ResizeWidths == {8, 10}
Heights == 0..MaxHeight

\* no _flex_offsets call has been made yet
NoFlexCall == [flexes |-> <<>>, size |-> 0,
               result |-> [raised |-> FALSE, offsets |-> <<>>]]

TableInit ==
    /\ data = <<>>
    /\ selected_index = 0
    /\ view_offset = 0
    /\ widths = <<>>
    /\ left_column = 0
    /\ size_x = 1
    /\ size_y = 1
    /\ focus_index = 0

\* await table.set_selected_index(index)
SetSelectedIndex(index) ==
    /\ set_selected_index(index)
    /\ ret' = "None"
    /\ UNCHANGED <<data, widths, left_column, size_x, size_y, focus_index,
                   tree, flex_call, signalVars, signals, uiVars, widgetVars, timerVars, appVars>>

\* table.data = rows
SetData(rows) ==
    /\ data' = rows
    /\ widths' = CalcWidths(rows)
    /\ focus_index' = IF focus_index >= Len(rows) THEN Len(rows) - 1
                      ELSE focus_index
    /\ ret' = "None"
    /\ UNCHANGED <<selected_index, view_offset, left_column, size_x, size_y, tree,
                   flex_call, signalVars, signals, uiVars, widgetVars, timerVars, appVars>>

\* table.on_resize(width, height); the table is the root and has no children
TableOnResize(width, height) ==
    /\ size_x' = width
    /\ size_y' = height
    /\ view_offset' = ResizeOffset(selected_index, view_offset, height)
    /\ ret' = "None"
    /\ UNCHANGED <<data, selected_index, widths, left_column, focus_index,
                   tree, flex_call, signalVars, signals, uiVars, widgetVars, timerVars, appVars>>

\* Table.on_input: the index a selection key asks set_selected_index for
KeyIndex(key, sel, n, height) ==
    CASE key \in DownKeys -> sel + 1
      [] key \in UpKeys -> sel - 1
      [] key \in PageDownKeys -> sel + PageStep(height)
      [] key \in PageUpKeys -> sel - PageStep(height)
      [] key = "KEY_HOME" -> 0
      [] key = "KEY_END" -> n - 1

\* await table.on_input(key); h: a handler connected to on[key] returns truthy.
\* The table has no child widgets, so Widget.on_input consumes the key only
\* through such a handler.
TableOnInput(key, h) ==
    /\ IF h
       THEN /\ ret' = "True"
            /\ UNCHANGED <<selected_index, view_offset, left_column>>
       ELSE CASE key \in SelectionKeys ->
                   /\ set_selected_index(
                          KeyIndex(key, selected_index, Len(data), size_y))
                   /\ ret' = "True"
                   /\ UNCHANGED left_column
              [] key \in LeftKeys ->
                   /\ left_column' = IF left_column > 0 THEN left_column - 1
                                     ELSE left_column
                   /\ ret' = IF left_column > 0 THEN "True" ELSE "False"
                   /\ UNCHANGED <<selected_index, view_offset>>
              [] key \in RightKeys ->
                   /\ Capped(widths, left_column, size_x) => left_column < MaxLeft
                   /\ left_column' = IF Capped(widths, left_column, size_x)
                                     THEN left_column + 1 ELSE left_column
                   /\ ret' = IF Capped(widths, left_column, size_x)
                             THEN "True" ELSE "False"
                   /\ UNCHANGED <<selected_index, view_offset>>
              [] OTHER ->
                   /\ ret' = "False"
                   /\ UNCHANGED <<selected_index, view_offset, left_column>>

\* await table.on_input(key) on a table that is the root
OnInput(key, h) ==
    /\ TableOnInput(key, h)
    /\ UNCHANGED <<data, widths, size_x, size_y, focus_index, tree, flex_call,
                   signalVars, signals, uiVars, widgetVars, timerVars, appVars>>

TableNext ==
    \/ \E index \in Indices : SetSelectedIndex(index)
    \/ \E rows \in RowSeqs : SetData(rows)
    \/ \E width \in ResizeWidths, height \in Heights : TableOnResize(width, height)
    \/ \E key \in Keys, h \in BOOLEAN : OnInput(key, h)

TableSpecInit ==
    /\ TableInit
    /\ tree = <<>>
    /\ flex_call = NoFlexCall
    /\ ret = "None"
    /\ signal_class = "Signal"
    /\ SignalInit
    /\ NoViewsNoTimer
    /\ NoWidgets

TableSpec == TableSpecInit /\ [][TableNext]_vars

----------------------------------------------------------------------------
(* Widget: the tree and its flex layout *)

\* Widget.__init__: the fields of a new widget below parent p (0: a terminal)
NewWidgetFields(p, vertical, f) ==
    [parent |-> p, layout_dir_vertical |-> vertical,
     origin_x |-> 0, origin_y |-> 0, size_x |-> 1, size_y |-> 1,
     flex |-> f, widgets |-> <<>>]

\* [widget.flex for widget in self.widgets]
FlexesOf(t, w) == [i \in 1..Len(t[w].widgets) |-> t[t[w].widgets[i]].flex]

\* list(itertools.accumulate(s))
Accumulate_Plain(s) == s
Accumulate(s) == [i \in 1..Len(s) |-> Sum(SubSeq(s, 1, i))]

\* Widget._flex_offsets(size) for the children's flex weights; raised stands
\* for the ZeroDivisionError of the division by flexes[-1]
FlexOffsets_PerChild(flexlist, size) ==
    IF flexlist = <<>> THEN [raised |-> FALSE, offsets |-> <<>>]
    ELSE LET total == Sum(flexlist)
         IN  IF total = 0 THEN [raised |-> TRUE, offsets |-> <<>>]
             ELSE [raised |-> FALSE,
                   offsets |-> <<0>> \o Accumulate(
                       [i \in 1..Len(flexlist) |->
                           (flexlist[i] * size) \div total])]
FlexOffsets(flexlist, size) ==
    IF flexlist = <<>> THEN [raised |-> FALSE, offsets |-> <<>>]
    ELSE LET flexes == <<0>> \o Accumulate(flexlist)
             total == flexes[Len(flexes)]
         IN  IF total = 0 THEN [raised |-> TRUE, offsets |-> <<>>]
             ELSE [raised |-> FALSE,
                   offsets |-> [i \in 1..Len(flexes) |->
                                   (flexes[i] * size) \div total]]

\* Widget.on_resize(width, height) of widget w, with the calls it makes on its
\* children; raised: an exception left it, with the tree as it was by then
RECURSIVE OnResize(_, _, _, _)
RECURSIVE ResizeChildren(_, _, _, _, _, _)
OnResize(t, w, width, height) ==
    LET p == t[w].parent
        t1 == [t EXCEPT
                 ![w].size_x = IF p # 0
                               THEN PyMin(width, t[p].size_x - t[w].origin_x)
                               ELSE width,
                 ![w].size_y = IF p # 0
                               THEN PyMin(height, t[p].size_y - t[w].origin_y)
                               ELSE height]
        fo == FlexOffsets(FlexesOf(t1, w),
                          IF t1[w].layout_dir_vertical THEN height ELSE width)
    IN  IF fo.raised THEN [t |-> t1, raised |-> TRUE]
        ELSE ResizeChildren(t1, w, 1, fo.offsets, width, height)
ResizeChildren(t, w, i, offsets, width, height) ==
    IF i > Len(t[w].widgets) THEN [t |-> t, raised |-> FALSE]
    ELSE LET c == t[w].widgets[i]
             offset == offsets[i]
             size == offsets[i + 1] - offset
             r == IF ~t[w].layout_dir_vertical
                  THEN OnResize([t EXCEPT ![c].origin_x = offset,
                                          ![c].origin_y = t[w].origin_y],
                                c, size, height)
                  ELSE OnResize([t EXCEPT ![c].origin_x = t[w].origin_x,
                                          ![c].origin_y = offset],
                                c, width, size)
         IN  IF r.raised THEN r
             ELSE ResizeChildren(r.t, w, i + 1, offsets, width, height)

----------------------------------------------------------------------------
(* Widget: operations of the layout *)

\* the flex weights the application gives its widgets
AssignedFlexes == {1, 2}
\* the terminal sizes (width, height) the root is resized to
TerminalSizes == {<<80, 24>>, <<40, 10>>}

\* Widget(parent, vertical) followed by the assignment of its flex weight
NewWidget(p, vertical, f) ==
    /\ Len(tree) < MaxWidgets
    /\ tree' = Append([tree EXCEPT ![p].widgets = Append(@, Len(tree) + 1)],
                      NewWidgetFields(p, vertical, f))
    /\ UNCHANGED <<tableVars, flex_call, ret, signalVars, signals, uiVars, widgetVars, timerVars,
                   appVars>>

\* root.on_resize(width, height)
RootOnResize(width, height) ==
    LET r == OnResize(tree, 1, width, height)
    IN  /\ tree' = r.t
        /\ ret' = IF r.raised THEN "ZeroDivisionError" ELSE "None"
        /\ UNCHANGED <<tableVars, flex_call, signalVars, signals, uiVars, widgetVars, timerVars,
                   appVars>>

\* widget w calls self._flex_offsets(size), as its on_resize does
FlexOffsetsCall(w, size) ==
    /\ flex_call' = [flexes |-> FlexesOf(tree, w), size |-> size,
                     result |-> FlexOffsets(FlexesOf(tree, w), size)]
    /\ UNCHANGED <<tableVars, tree, ret, signalVars, signals, uiVars, widgetVars, timerVars,
                   appVars>>

LayoutInit ==
    /\ TableInit
    /\ \E vertical \in BOOLEAN : tree = <<NewWidgetFields(0, vertical, 1)>>
    /\ flex_call = NoFlexCall
    /\ ret = "None"
    /\ signal_class = "Signal"
    /\ SignalInit
    /\ NoViewsNoTimer
    /\ NoWidgets

LayoutNext ==
    \/ \E p \in 1..Len(tree), vertical \in BOOLEAN, f \in AssignedFlexes :
          NewWidget(p, vertical, f)
    \/ \E size \in TerminalSizes : RootOnResize(size[1], size[2])

LayoutSpec == LayoutInit /\ [][LayoutNext]_vars

RootOnResizeStep == \E size \in TerminalSizes : RootOnResize(size[1], size[2])

\* The layout of one widget's children: any flex weights, any extent
FlexWeights == 0..MaxFlex
Extents == (0..MaxExtent) \cup {10, 24, 40, 80}

FlexNext ==
    \/ \E f \in FlexWeights : NewWidget(1, FALSE, f)
    \/ \E size \in Extents : FlexOffsetsCall(1, size)

FlexSpec == LayoutInit /\ [][FlexNext]_vars

\* the offsets start at 0, end at the extent and never step back, so that the
\* children's extents offsets[i+1] - offsets[i] add up to the extent
PartitionsExtent(offsets, n, size) ==
    /\ Len(offsets) = n + 1
    /\ offsets[1] = 0
    /\ offsets[n + 1] = size
    /\ \A i \in 1..n : offsets[i] <= offsets[i + 1]
    /\ Sum([i \in 1..n |-> offsets[i + 1] - offsets[i]]) = size

----------------------------------------------------------------------------
(* Widget.out: printing to the screen buffer *)

\* the sizes the root is resized to before it is painted
PaintSizes == {<<4, 2>>, <<3, 1>>}
\* the widget-local coordinates that painting code passes to out: the first
\* and the last column or row of the widget and the ones next to them
OutColumns(w) == {-1, 0, tree[w].size_x - 1, tree[w].size_x}
OutRows(w) == {-1, 0, tree[w].size_y}

\* widget.out(x, y, text): ScreenBuffer.print of the cursor movement to the
\* absolute position and of the text, unless the widget returns before
Out(w, x, y, text) ==
    /\ Len(screen) < MaxPrinted
    /\ screen' = IF OutVisible(x, y, tree[w].size_x, tree[w].size_y)
                 THEN Append(screen, [x |-> x + tree[w].origin_x,
                                      y |-> y + tree[w].origin_y,
                                      text |-> text])
                 ELSE screen
    /\ ret' = "None"
    /\ UNCHANGED <<tableVars, tree, flex_call, signalVars, signals, uiVars,
                   multiview, timerVars, appVars>>

\* ScreenBuffer.clear
Clear ==
    /\ screen' = <<>>
    /\ ret' = "None"
    /\ UNCHANGED <<tableVars, tree, flex_call, signalVars, signals, uiVars,
                   multiview, timerVars, appVars>>

\* a root widget with two children of flex 1 and 2
PaintInit ==
    /\ TableInit
    /\ \E vertical \in BOOLEAN :
          tree = <<[NewWidgetFields(0, vertical, 1) EXCEPT !.widgets = <<2, 3>>],
                   NewWidgetFields(1, FALSE, 1), NewWidgetFields(1, FALSE, 2)>>
    /\ flex_call = NoFlexCall
    /\ ret = "None"
    /\ signal_class = "Signal"
    /\ SignalInit
    /\ NoViewsNoTimer
    /\ NoWidgets

PaintNext ==
    \/ \E size \in PaintSizes : RootOnResize(size[1], size[2])
    \/ \E w \in 1..Len(tree) :
          \E x \in OutColumns(w), y \in OutRows(w) : Out(w, x, y, "|")
    \/ Clear

PaintSpec == PaintInit /\ [][PaintNext]_vars

----------------------------------------------------------------------------
(* StatusBar *)

\* the terminal sizes (width, height) the status bar is resized to
StatusSizes == {<<10, 5>>, <<4, 1>>, <<3, 2>>, <<3, 0>>}
\* the texts the application shows in the status line
StatusTexts == {"", "foobar"}

\* StatusBar.on_resize(width, height) of the root widget: Widget.on_resize
\* with one row less, then the status bar's own height
StatusBarOnResize_FullHeight(t, width, height) ==
    LET r == OnResize(t, 1, width, height)
    IN  IF r.raised THEN r
        ELSE [t |-> [r.t EXCEPT ![1].size_y = height], raised |-> FALSE]
StatusBarOnResize(t, width, height) ==
    LET r == OnResize(t, 1, width, height - 1)
    IN  IF r.raised THEN r
        ELSE [t |-> [r.t EXCEPT ![1].size_y = height], raised |-> FALSE]

\* what widget.out(x, y, text) of a widget with fields wf prints
OutPrints(wf, x, y, text) ==
    IF OutVisible(x, y, wf.size_x, wf.size_y)
    THEN << [x |-> x + wf.origin_x, y |-> y + wf.origin_y, text |-> text] >>
    ELSE <<>>

\* for y in range(n): self.out(0, y, text)
RECURSIVE FillPrints(_, _, _)
FillPrints(wf, n, text) ==
    IF n <= 0 THEN <<>>
    ELSE FillPrints(wf, n - 1, text) \o OutPrints(wf, 0, n - 1, text)

\* Placeholder.on_paint: clear_viewport, then a line of filler on every row
PlaceholderOnPaint(wf) ==
    FillPrints(wf, wf.size_y, " ") \o FillPrints(wf, wf.size_y, "{")

\* for widget in self.widgets: widget.on_paint(), from the i-th child on
RECURSIVE ChildrenOnPaint(_, _, _)
ChildrenOnPaint(t, w, i) ==
    IF i > Len(t[w].widgets) THEN <<>>
    ELSE PlaceholderOnPaint(t[t[w].widgets[i]]) \o ChildrenOnPaint(t, w, i + 1)

\* StatusBar.on_paint of the root widget with its text
StatusBarOnPaint(t, text) ==
    ChildrenOnPaint(t, 1, 1) \o OutPrints(t[1], 0, t[1].size_y - 1, text)

\* statusbar.on_resize(width, height)
StatusBarResize(width, height) ==
    /\ \E r \in {StatusBarOnResize(tree, width, height)} :
          /\ tree' = r.t
          /\ ret' = IF r.raised THEN "ZeroDivisionError" ELSE "None"
    /\ UNCHANGED <<tableVars, flex_call, signalVars, signals, uiVars,
                   widgetVars, timerVars, appVars>>

\* statusbar.text = text; statusbar.on_paint(), onto a cleared screen buffer
StatusBarPaint(text) ==
    /\ screen = <<>>
    /\ screen' = StatusBarOnPaint(tree, text)
    /\ ret' = "None"
    /\ UNCHANGED <<tableVars, tree, flex_call, signalVars, signals, uiVars,
                   multiview, timerVars, appVars>>

\* StatusBar(term)
StatusBarInit ==
    /\ TableInit
    /\ tree = <<NewWidgetFields(0, FALSE, 1)>>
    /\ flex_call = NoFlexCall
    /\ ret = "None"
    /\ signal_class = "Signal"
    /\ SignalInit
    /\ NoViewsNoTimer
    /\ NoWidgets

\* a status bar whose children are Placeholder widgets
StatusBarNext ==
    \/ \E f \in AssignedFlexes : NewWidget(1, TRUE, f)
    \/ \E size \in StatusSizes : StatusBarResize(size[1], size[2])
    \/ \E text \in StatusTexts : StatusBarPaint(text)
    \/ Clear

StatusBarSpec == StatusBarInit /\ [][StatusBarNext]_vars

----------------------------------------------------------------------------
(* MultiView *)

\* the keys the application registers its views under
MultiViewKeys == {"DEPLOYMENTS", "REPOS"}

\* the MultiView is the child of the root window
MainView == 2

\* self.widgets = [self.views[view]]
ShownWidgets_Append(widgets, w) == Append(widgets, w)
ShownWidgets(widgets, w) == <<w>>

\* what a handler of on_view_switched is called with and finds when called
Emission(m, t) ==
    [args |-> <<>>, current_view |-> m.current_view,
     widgets |-> t[MainView].widgets,
     sizes |-> [i \in 1..Len(t[MainView].widgets) |->
                  <<t[t[MainView].widgets[i]].size_x,
                    t[t[MainView].widgets[i]].size_y>>]]

\* MultiView.show(view) on the multiview m in the tree t
show(m, t, view) ==
    LET m1 == [m EXCEPT !.current_view = view, !.switched = <<>>]
    IN  IF view \notin DOMAIN m.views
        THEN [multiview |-> [m1 EXCEPT !.raised = "KeyError"], tree |-> t]
        ELSE LET t1 == [t EXCEPT ![MainView].widgets =
                                   ShownWidgets(@, m.views[view])]
                 r == OnResize(t1, MainView, t1[MainView].size_x,
                               t1[MainView].size_y)
             IN  IF r.raised
                 THEN [multiview |-> [m1 EXCEPT !.raised = "ZeroDivisionError"],
                       tree |-> r.t]
                 ELSE [multiview |-> [m1 EXCEPT !.raised = "None",
                                         !.switched = <<Emission(m1, r.t)>>],
                       tree |-> r.t]

\* await multiview.show(view)
Show(view) ==
    /\ \E r \in {show(multiview, tree, view)} :
          /\ multiview' = r.multiview
          /\ tree' = r.tree
    /\ ret' = multiview'.raised
    /\ UNCHANGED <<tableVars, flex_call, signalVars, signals, uiVars, screen,
                   timerVars, appVars>>

\* multiview.add(key, widget) for a widget constructed as its child
AddView(key, w) ==
    /\ tree[w].parent = MainView
    /\ multiview' = [multiview EXCEPT
                       !.views = [k \in DOMAIN @ \cup {key} |->
                                    IF k = key THEN w ELSE @[k]]]
    /\ ret' = "None"
    /\ UNCHANGED <<tableVars, tree, flex_call, signalVars, signals, uiVars,
                   screen, timerVars, appVars>>

\* a root window and in it the MultiView
MultiViewInit ==
    /\ TableInit
    /\ tree = <<[NewWidgetFields(0, FALSE, 1) EXCEPT !.widgets = <<MainView>>],
                NewWidgetFields(1, FALSE, 1)>>
    /\ flex_call = NoFlexCall
    /\ ret = "None"
    /\ signal_class = "AsyncSignal"
    /\ SignalInit
    /\ NoViewsNoTimer
    /\ NoWidgets

MultiViewNext ==
    \/ \E p \in MainView..Len(tree), f \in AssignedFlexes :
          NewWidget(p, FALSE, f)
    \/ \E key \in MultiViewKeys, w \in 1..Len(tree) : AddView(key, w)
    \/ \E key \in MultiViewKeys : Show(key)
    \/ \E size \in TerminalSizes : RootOnResize(size[1], size[2])

MultiViewSpec == MultiViewInit /\ [][MultiViewNext]_vars

----------------------------------------------------------------------------
(* Timer *)

\* Time is counted in halves of the timer's interval.
Interval == 2

\* A test starts the timer, sleeps for interval * (n_calls - 0.5) and stops
\* the timer.
n_calls == 5
SleepTime == ((2 * n_calls - 1) * Interval) \div 2

\* The event loop: now is its clock; scheduled holds the times of the
\* call_later handles that are neither run nor cancelled, in the order of
\* their creation, so that the timer's _handle, when pending, is the last;
\* call_count counts the invocations of the callback and tasks those of them
\* that have not finished; starts counts the start calls that started the
\* timer, up to 2, and started_at is the time of the first.

\* Timer._enqueue
enqueue_Late(t, l) ==
    IF ~t.stopped
    THEN [timer |-> [t EXCEPT !.handle = [state |-> "pending",
                                          when |-> l.now + 2 * Interval]],
          loop |-> [l EXCEPT !.scheduled = Append(@, l.now + 2 * Interval)]]
    ELSE [timer |-> t, loop |-> l]
enqueue(t, l) ==
    IF ~t.stopped
    THEN [timer |-> [t EXCEPT !.handle = [state |-> "pending",
                                          when |-> l.now + Interval]],
          loop |-> [l EXCEPT !.scheduled = Append(@, l.now + Interval)]]
    ELSE [timer |-> t, loop |-> l]

\* Timer._tick: the reschedule, then create_task(self._callback())
tick(t, l) ==
    LET e == enqueue(t, l)
    IN  [timer |-> e.timer,
         loop |-> [e.loop EXCEPT !.call_count = @ + 1, !.tasks = @ + 1]]

\* Timer.start
start_Always(t, l) == tick([t EXCEPT !.stopped = FALSE], l)
start(t, l) ==
    IF ~t.stopped THEN [timer |-> t, loop |-> l]
    ELSE IF t.handle.state \in {"None", "cancelled"}
    THEN tick([t EXCEPT !.stopped = FALSE], l)
    ELSE [timer |-> [t EXCEPT !.stopped = FALSE], loop |-> l]

\* Timer.stop: TimerHandle.cancel takes a pending handle off the loop and
\* marks a handle that has run as cancelled; without a handle the call
\* raises AttributeError
stop_NoCancel(t, l) ==
    [timer |-> [t EXCEPT !.stopped = TRUE], loop |-> l, raised |-> "None"]
stop(t, l) ==
    IF t.handle.state = "None"
    THEN [timer |-> t, loop |-> l, raised |-> "AttributeError"]
    ELSE [timer |-> [t EXCEPT !.handle.state = "cancelled", !.stopped = TRUE],
          loop |-> IF t.handle.state = "pending"
                   THEN [l EXCEPT !.scheduled = SubSeq(@, 1, Len(@) - 1)]
                   ELSE l,
          raised |-> "None"]

\* timer.start()
Start ==
    /\ loop.call_count < MaxCalls
    /\ \E r \in {start(timer, loop)} :
          /\ timer' = r.timer
          /\ loop' = IF timer.stopped
                     THEN [r.loop EXCEPT
                             !.starts = PyMin(@ + 1, 2),
                             !.started_at = IF loop.starts = 0 THEN loop.now
                                            ELSE 0]
                     ELSE r.loop
    /\ ret' = "None"
    /\ UNCHANGED <<tableVars, tree, flex_call, signalVars, signals, uiVars,
                   widgetVars, appVars>>

\* timer.stop()
Stop ==
    /\ \E r \in {stop(timer, loop)} :
          /\ timer' = r.timer
          /\ loop' = r.loop
          /\ ret' = r.raised
    /\ UNCHANGED <<tableVars, tree, flex_call, signalVars, signals, uiVars,
                   widgetVars, appVars>>

\* the event loop runs the handle i, which is due: Timer._tick
Tick(i) ==
    /\ loop.scheduled[i] <= loop.now
    /\ LET ran == [loop EXCEPT !.scheduled =
                      SubSeq(@, 1, i - 1) \o SubSeq(@, i + 1, Len(@))]
           t == IF i = Len(loop.scheduled) /\ timer.handle.state = "pending"
                THEN [timer EXCEPT !.handle.state = "fired"]
                ELSE timer
       IN  \E r \in {tick(t, ran)} :
             /\ timer' = r.timer
             /\ loop' = r.loop
    /\ ret' = "None"
    /\ UNCHANGED <<tableVars, tree, flex_call, signalVars, signals, uiVars,
                   widgetVars, appVars>>

\* the event loop runs a task of the callback to its end
CallbackDone ==
    /\ loop.tasks > 0
    /\ loop' = [loop EXCEPT !.tasks = @ - 1]
    /\ ret' = "None"
    /\ UNCHANGED <<tableVars, tree, flex_call, signalVars, signals, uiVars,
                   widgetVars, timer, appVars>>

\* half an interval passes; the loop has run every handle that was due
Advance ==
    /\ loop.now < MaxTime
    /\ \A i \in 1..Len(loop.scheduled) : loop.scheduled[i] > loop.now
    /\ loop' = [loop EXCEPT !.now = @ + 1]
    /\ ret' = "None"
    /\ UNCHANGED <<tableVars, tree, flex_call, signalVars, signals, uiVars,
                   widgetVars, timer, appVars>>

TimerInit ==
    /\ TableInit
    /\ tree = <<>>
    /\ flex_call = NoFlexCall
    /\ ret = "None"
    /\ signal_class = "AsyncSignal"
    /\ SignalInit
    /\ NoViewsNoTimer
    /\ NoWidgets

TimerNext ==
    \/ Start
    \/ Stop
    \/ \E i \in 1..Len(loop.scheduled) : Tick(i)
    \/ CallbackDone
    \/ Advance

TimerSpec == TimerInit /\ [][TimerNext]_vars

----------------------------------------------------------------------------
(* gui_main and MainWindow: the application loop *)

\* the SIGWINCH notifications, the repaint tasks and the callback tasks the
\* event loop holds at most, each
MaxPending == 2

\* the keys the user presses: quit, the watch toggle, a key whose handler
\* awaits the data provider, and the deploy confirmation, whose handler runs
\* inside _try_or_force_deploy
AppKeys == {"q", "w", "s", "d"}

\* how a handler or a callback that awaits the data provider ends
Outcomes == {"returned", "Exception"}

\* gui_main is between its first paint and its end
Running(m) == m.pc \in {"paint", "wait_key", "input", "popover"}

\* the thread of the event loop is inside a blocking call: popover_confirm
\* reads the acknowledging key with term.inkey() on that thread, while
\* gui_main hands its term.inkey() to a worker thread and awaits it
LoopBlocked_WhileReading(m) == m.pc \in {"popover", "wait_key"}
LoopBlocked(m) == m.pc = "popover"

\* the event loop can run a callback or a task that is ready
LoopFree(m) == Running(m) /\ ~LoopBlocked(m)

\* MainWindow.on_paint: while _resized, the flag is cleared and on_resize is
\* run with the terminal's size as it is now, then the window is painted
MainWindowOnPaint_NoLayout(m) ==
    [m EXCEPT !.resized = FALSE, !.painted = m.layout]
MainWindowOnPaint(m) ==
    IF m.resized
    THEN [m EXCEPT !.resized = FALSE, !.layout = m.term, !.painted = m.term]
    ELSE [m EXCEPT !.painted = m.layout]

\* the user resizes the terminal: SIGWINCH is delivered to the process and
\* the event loop is handed one call of sigwinch_handler
Sigwinch(size) ==
    /\ Running(main)
    /\ size # main.term
    /\ main.sigwinch < MaxPending
    /\ main' = [main EXCEPT !.term = size, !.sigwinch = @ + 1]
    /\ UNCHANGED <<tableVars, tree, flex_call, ret, signalVars, signals,
                   uiVars, widgetVars, timerVars, obj>>

\* the event loop calls sigwinch_handler
SigwinchHandler ==
    /\ LoopFree(main)
    /\ main.sigwinch > 0
    /\ main.paint_tasks < MaxPending
    /\ main' = [main EXCEPT !.resized = TRUE, !.sigwinch = @ - 1,
                            !.paint_tasks = @ + 1]
    /\ UNCHANGED <<tableVars, tree, flex_call, ret, signalVars, signals,
                   uiVars, widgetVars, timerVars, obj>>

\* the event loop runs a task of async_handler: self.on_paint()
PaintTask ==
    /\ LoopFree(main)
    /\ main.paint_tasks > 0
    /\ main' = [MainWindowOnPaint(main) EXCEPT !.paint_tasks = @ - 1]
    /\ UNCHANGED <<tableVars, tree, flex_call, ret, signalVars, signals,
                   uiVars, widgetVars, timerVars, obj>>

\* gui_main at the top of its loop: main.on_paint(), then get_key is handed
\* to the worker of a new pool and gui_main awaits it
Paint ==
    /\ main.pc = "paint"
    /\ main' = [MainWindowOnPaint(main) EXCEPT !.pc = "wait_key",
                                                !.worker = "reading"]
    /\ UNCHANGED <<tableVars, tree, flex_call, ret, signalVars, signals,
                   uiVars, widgetVars, timerVars, obj>>

\* the worker thread: term.inkey() returns the key the user pressed
KeyPressed(key) ==
    /\ main.worker = "reading"
    /\ main' = [main EXCEPT !.worker = "done", !.key = key]
    /\ UNCHANGED <<tableVars, tree, flex_call, ret, signalVars, signals,
                   uiVars, widgetVars, timerVars, obj>>

\* the event loop resumes gui_main with the worker's result; the pool is
\* shut down
KeyArrives ==
    /\ main.pc = "wait_key"
    /\ main.worker = "done"
    /\ main' = [main EXCEPT !.pc = "input", !.worker = "idle"]
    /\ UNCHANGED <<tableVars, tree, flex_call, ret, signalVars, signals,
                   uiVars, widgetVars, timerVars, obj>>

\* MainView._toggle_watch
ToggleWatch(t, l) ==
    IF t.stopped THEN start(t, l)
    ELSE [timer |-> stop(t, l).timer, loop |-> stop(t, l).loop]

\* await main.on_input(key) in gui_main, the handler of the key ending as
\* how says: ExitApp ends gui_main normally, an exception that
\* _try_or_force_deploy catches is shown by popover_confirm, any other
\* exception leaves gui_main
AppOnInput(how) ==
    /\ main.pc = "input"
    /\ main.key = "w" =>
          loop.call_count < MaxCalls /\ loop.tasks < MaxPending
    /\ \E r \in {IF main.key = "w" /\ how = "returned"
                 THEN ToggleWatch(timer, loop)
                 ELSE [timer |-> timer, loop |-> loop]} :
          /\ timer' = r.timer
          /\ loop' = r.loop
    /\ main' = [main EXCEPT
                  !.pc = IF main.key = "q" THEN "returned"
                         ELSE IF how = "returned" THEN "paint"
                         ELSE IF main.key = "d" THEN "popover"
                         ELSE "raised",
                  !.key = "None"]
    /\ ret' = IF main.key = "q" THEN "ExitApp"
              ELSE IF how = "returned" \/ main.key = "d" THEN "None"
              ELSE how
    /\ UNCHANGED <<tableVars, tree, flex_call, signalVars, signals, uiVars,
                   widgetVars, obj>>

\* popover_confirm returns the key that acknowledges the popover, and the
\* handler returns to gui_main
PopoverKey ==
    /\ main.pc = "popover"
    /\ main' = [main EXCEPT !.pc = "paint"]
    /\ UNCHANGED <<tableVars, tree, flex_call, ret, signalVars, signals,
                   uiVars, widgetVars, timerVars, obj>>

\* the interval has passed and the event loop runs the timer's handle
AppTick ==
    /\ LoopFree(main)
    /\ loop.scheduled # <<>>
    /\ timer.handle.state = "pending"
    /\ loop.call_count < MaxCalls
    /\ loop.tasks < MaxPending
    /\ LET ran == [loop EXCEPT !.now = PyMax(@, timer.handle.when),
                               !.scheduled = <<>>]
       IN  \E r \in {tick([timer EXCEPT !.handle.state = "fired"], ran)} :
             /\ timer' = r.timer
             /\ loop' = r.loop
    /\ UNCHANGED <<tableVars, tree, flex_call, ret, signalVars, signals,
                   uiVars, widgetVars, appVars>>

\* the event loop runs a task of the timer's callback to its end; an
\* exception it ends with is stored in the task, which nothing awaits, and
\* has no further effect
AppCallbackDone(how) ==
    /\ LoopFree(main)
    /\ loop.tasks > 0
    /\ loop' = [loop EXCEPT !.tasks = @ - 1]
    /\ UNCHANGED <<tableVars, tree, flex_call, ret, signalVars, signals,
                   uiVars, widgetVars, timer, appVars>>

\* gui_main after MainWindow(term, gh) and main.init(): the window is laid
\* out for the terminal's size and the SIGWINCH handler is installed
AppInit ==
    /\ TableInit
    /\ tree = <<>>
    /\ flex_call = NoFlexCall
    /\ ret = "None"
    /\ signal_class = "AsyncSignal"
    /\ SignalInit
    /\ screen = <<>>
    /\ multiview = NewMultiView
    /\ timer = NewTimer
    /\ loop = NewLoop
    /\ obj = NewObject
    /\ \E size \in TerminalSizes :
          main = [NoApp EXCEPT !.pc = "paint", !.term = size, !.layout = size]
    /\ NoWidgets

AppNext ==
    \/ Paint
    \/ \E key \in AppKeys : KeyPressed(key)
    \/ KeyArrives
    \/ \E how \in Outcomes : AppOnInput(how)
    \/ PopoverKey
    \/ \E size \in TerminalSizes : Sigwinch(size)
    \/ SigwinchHandler
    \/ PaintTask
    \/ AppTick
    \/ \E how \in Outcomes : AppCallbackDone(how)

AppSpec == AppInit /\ [][AppNext]_vars

----------------------------------------------------------------------------
(* Signal, AsyncSignal: the handler set *)

\* hasattr(f, "__self__"): f is a bound method
HasSelfAttr(f) == f = "m"

\* isinstance(f, object): true of every Python value
IsObject(f) == TRUE

\* the entry connect() and disconnect() build for f: a WeakMethod for a bound
\* method, a weakref.ref for any other object, f itself otherwise
Wrap(f) ==
    [kind |-> IF HasSelfAttr(f) THEN "WeakMethod"
              ELSE IF IsObject(f) THEN "ref" ELSE "strong",
     referent |-> f]

\* the referent of an entry has not been collected
Alive(w, life) ==
    \/ w.kind = "strong"
    \/ w.referent \notin Owners
    \/ life[w.referent] # "collected"

\* e == w for a stored entry e and a newly built entry w (two objects): weak
\* references are equal when both referents are alive and the same, and a
\* dead one is equal to itself only
WrapperEq(e, w, life) ==
    /\ Alive(e, life)
    /\ Alive(w, life)
    /\ e.kind = w.kind
    /\ e.referent = w.referent

\* set.add(w)
SetAdd_Always(hs, w, life) == Append(hs, w)
SetAdd(hs, w, life) ==
    IF \E i \in 1..Len(hs) : WrapperEq(hs[i], w, life) THEN hs
    ELSE Append(hs, w)

\* set.remove(w): KeyError when no entry equals w
SetRemove_Discard(hs, w, life) ==
    LET Other(e) == ~WrapperEq(e, w, life)
    IN  [raised |-> "None", set |-> SelectSeq(hs, Other)]
SetRemove(hs, w, life) ==
    LET Other(e) == ~WrapperEq(e, w, life)
    IN  IF \E i \in 1..Len(hs) : WrapperEq(hs[i], w, life)
        THEN [raised |-> "None", set |-> SelectSeq(hs, Other)]
        ELSE [raised |-> "KeyError", set |-> hs]

\* _SignalBase.connect and _SignalBase.disconnect on a handler set
connect(hs, f, life) == SetAdd(hs, Wrap(f), life)
disconnect(hs, f, life) == SetRemove(hs, Wrap(f), life)

\* _SignalBase._cleanup, called back with the weak reference of each owner in
\* dead when that owner is collected: the entry is removed
cleanup_Keep(hs, dead) == hs
cleanup(hs, dead) ==
    LET Kept(e) == ~(e.kind # "strong" /\ e.referent \in dead)
    IN  SelectSeq(hs, Kept)

\* the callables registered in a handler set
Registered(hs) == { hs[i].referent : i \in 1..Len(hs) }

\* The orders in which iterating the handler set can yield its entries: a set
\* iterates in hash order, which is unrelated to the order of insertion.
Orderings(hs) ==
    LET n == Len(hs)
        perms == { p \in [1..n -> 1..n] :
                     \A i, j \in 1..n : i # j => p[i] # p[j] }
    IN  { [i \in 1..n |-> hs[p[i]]] : p \in perms }

\* _SignalBase._unwrapped_handlers over the entries in iteration order: a weak
\* reference is called and yields its referent, or None once that is dead
UnwrappedHandlers(order, life) ==
    [i \in 1..Len(order) |->
        IF Alive(order[i], life) THEN order[i].referent ELSE "None"]

\* what handler h returns when called with arg: the second signal has no
\* handlers and returns the empty list of its emit, a callable returns a
\* value of its own
HandlerReturn(h, arg) == IF h = "other" THEN <<>> ELSE <<h, arg>>

\* the list Signal.emit builds from the calls it makes, in the order it
\* makes them
EmitResults_Reversed(calls, arg) ==
    [i \in 1..Len(calls) |-> HandlerReturn(calls[Len(calls) + 1 - i], arg)]
EmitResults(calls, arg) ==
    [i \in 1..Len(calls) |-> HandlerReturn(calls[i], arg)]

\* the calls that cannot return: None is not callable, and the signal called
\* as its own handler emits again without end
FailingCalls(calls) ==
    { i \in 1..Len(calls) : calls[i] \in {"None", "self"} }

\* Signal.emit over the unwrapped handlers. The call of a failing handler ends
\* the emit: calls lists the handlers called up to that one.
EmitOutcome(calls, arg) ==
    IF FailingCalls(calls) = {}
    THEN [op |-> "emit", raised |-> "None", args |-> arg,
          before |-> Len(calls), calls |-> calls,
          results |-> EmitResults(calls, arg)]
    ELSE LET k == CHOOSE i \in FailingCalls(calls) :
                    \A j \in FailingCalls(calls) : i <= j
         IN  [op |-> "emit",
              raised |-> IF calls[k] = "None" THEN "TypeError"
                         ELSE "RecursionError",
              args |-> arg,
              before |-> Len(calls),
              calls |-> SubSeq(calls, 1, IF calls[k] = "None" THEN k - 1 ELSE k),
              results |-> <<>>]

\* the list AsyncSignal.emit returns: asyncio.as_completed yields the tasks
\* as they finish
AwaitedResults_CallOrder(calls, completed, arg) ==
    [i \in 1..Len(calls) |-> HandlerReturn(calls[i], arg)]
AwaitedResults(calls, completed, arg) ==
    [i \in 1..Len(completed) |-> HandlerReturn(completed[i], arg)]

----------------------------------------------------------------------------
(* Signal, AsyncSignal: operations *)

EmitArgs == {"foo", "bar"}

\* the outcome of an operation on the handler set, with the number of
\* entries the set had before it
SetOutcome(name, f, exc) ==
    [op |-> name, raised |-> exc, args |-> f, before |-> Len(handlers),
     calls |-> <<>>, results |-> <<>>]

\* an emit that has not returned yet
EmitPending(arg) ==
    [op |-> "emit", raised |-> "pending", args |-> arg,
     before |-> Len(handlers), calls |-> <<>>, results |-> <<>>]

\* the caller holds a reference to f
Held(f) == f \in Owners => lifetime[f] = "live"

\* signal.connect(f)
Connect(f) ==
    /\ Held(f)
    /\ Len(handlers) < MaxRegistered
    /\ handlers' = connect(handlers, f, lifetime)
    /\ outcome' = SetOutcome("connect", f, "None")
    /\ UNCHANGED <<tableVars, tree, flex_call, ret, signals, uiVars, widgetVars, timerVars, signal_class, lifetime, task,
                   appVars>>

\* signal += f
Add(f) ==
    /\ Held(f)
    /\ Len(handlers) < MaxRegistered
    /\ IF f = "self"
       THEN /\ outcome' = SetOutcome("add", f, "RuntimeError")
            /\ UNCHANGED handlers
       ELSE /\ handlers' = connect(handlers, f, lifetime)
            /\ outcome' = SetOutcome("add", f, "None")
    /\ UNCHANGED <<tableVars, tree, flex_call, ret, signals, uiVars, widgetVars, timerVars, signal_class, lifetime, task,
                   appVars>>

\* signal.disconnect(f)
Disconnect(f) ==
    LET r == disconnect(handlers, f, lifetime)
    IN  /\ Held(f)
        /\ handlers' = r.set
        /\ outcome' = SetOutcome("disconnect", f, r.raised)
        /\ UNCHANGED <<tableVars, tree, flex_call, ret, signals, uiVars, widgetVars, timerVars, signal_class, lifetime,
                       task, appVars>>

\* signal -= f
Sub(f) ==
    LET r == disconnect(handlers, f, lifetime)
    IN  /\ Held(f)
        /\ handlers' = r.set
        /\ outcome' = SetOutcome("sub", f, r.raised)
        /\ UNCHANGED <<tableVars, tree, flex_call, ret, signals, uiVars, widgetVars, timerVars, signal_class, lifetime,
                       task, appVars>>

\* The caller drops its last reference to the owner o. An owner outside any
\* reference cycle is collected at once and its weak references call
\* _cleanup; an owner inside a cycle stays in memory, unreachable, until the
\* collector runs. A handler called by the emit in flight is still referenced.
Release(o, cyclic) ==
    /\ lifetime[o] = "live"
    /\ o \notin task.pending
    /\ lifetime' = [lifetime EXCEPT ![o] = IF cyclic THEN "garbage"
                                           ELSE "collected"]
    /\ handlers' = IF cyclic THEN handlers ELSE cleanup(handlers, {o})
    /\ UNCHANGED <<tableVars, tree, flex_call, ret, signals, uiVars, widgetVars, timerVars, signal_class, task, outcome,
                   appVars>>

\* gc.collect(): the unreachable owners are collected and their weak
\* references call _cleanup
Collect ==
    LET dead == { o \in Owners : lifetime[o] = "garbage" /\ o \notin task.pending }
    IN  /\ dead # {}
        /\ lifetime' = [o \in Owners |-> IF o \in dead THEN "collected"
                                         ELSE lifetime[o]]
        /\ handlers' = cleanup(handlers, dead)
        /\ UNCHANGED <<tableVars, tree, flex_call, ret, signals, uiVars, widgetVars, timerVars, signal_class, task,
                       outcome, appVars>>

\* Signal.emit(arg)
Emit(arg) ==
    /\ signal_class = "Signal"
    /\ \E order \in Orderings(handlers) :
         outcome' = EmitOutcome(UnwrappedHandlers(order, lifetime), arg)
    /\ UNCHANGED <<tableVars, tree, flex_call, ret, signals, uiVars, widgetVars, timerVars, signal_class, handlers,
                   lifetime, task, appVars>>

\* AsyncSignal.emit(arg) up to its first await: every unwrapped handler has
\* been called and has returned its coroutine, and as_completed has made a
\* task of each
AsyncEmitStart(arg) ==
    /\ signal_class = "AsyncSignal"
    /\ task.state = "idle"
    /\ \E order \in Orderings(handlers) :
         LET calls == UnwrappedHandlers(order, lifetime)
         IN  IF "None" \in { calls[i] : i \in 1..Len(calls) }
             THEN /\ outcome' = EmitOutcome(calls, arg)
                  /\ UNCHANGED task
             ELSE /\ task' = [state |-> "running", args |-> arg, calls |-> calls,
                              pending |-> { calls[i] : i \in 1..Len(calls) },
                              completed |-> <<>>]
                  /\ outcome' = EmitPending(arg)
    /\ UNCHANGED <<tableVars, tree, flex_call, ret, signals, uiVars, widgetVars, timerVars, signal_class, handlers,
                   lifetime, appVars>>

\* the task of handler h finishes; the signal awaited as its own handler
\* emits again and never finishes
TaskDone(h) ==
    /\ task.state = "running"
    /\ h \in task.pending
    /\ h # "self"
    /\ task' = [task EXCEPT !.pending = @ \ {h},
                            !.completed = Append(@, h)]
    /\ UNCHANGED <<tableVars, tree, flex_call, ret, signals, uiVars, widgetVars, timerVars, signal_class, handlers,
                   lifetime, outcome, appVars>>

\* AsyncSignal.emit returns once as_completed has yielded every task
AsyncEmitReturn ==
    /\ task.state = "running"
    /\ task.pending = {}
    /\ outcome' = [op |-> "emit", raised |-> "None", args |-> task.args,
                   before |-> Len(task.calls), calls |-> task.calls,
                   results |-> AwaitedResults(task.calls, task.completed,
                                              task.args)]
    /\ task' = NoTask
    /\ UNCHANGED <<tableVars, tree, flex_call, ret, signals, uiVars, widgetVars, timerVars, signal_class, handlers,
                   lifetime, appVars>>

\* the operations on the handler set and the lifetime of the owners
RegistryNext(fs) ==
    \/ \E f \in fs : Connect(f)
    \/ \E f \in fs \cup {"self"} : Add(f)
    \/ \E f \in fs : Disconnect(f)
    \/ \E f \in fs : Sub(f)
    \/ \E o \in Owners, cyclic \in BOOLEAN : Release(o, cyclic)
    \/ Collect

EmitNext ==
    \/ \E arg \in EmitArgs : Emit(arg)
    \/ \E arg \in EmitArgs : AsyncEmitStart(arg)
    \/ \E h \in Callables : TaskDone(h)
    \/ AsyncEmitReturn

SignalSpecInit ==
    /\ TableInit
    /\ tree = <<>>
    /\ flex_call = NoFlexCall
    /\ ret = "None"
    /\ signal_class \in {"Signal", "AsyncSignal"}
    /\ SignalInit
    /\ NoViewsNoTimer
    /\ NoWidgets

\* a signal whose callers connect a bound method and a plain callable, and
\* try the signal itself with += only
SignalNext == RegistryNext({"m", "f"}) \/ EmitNext
SignalSpec == SignalSpecInit /\ [][SignalNext]_vars

\* a signal whose callers connect signal objects, the signal itself among
\* them
SelfConnectNext == RegistryNext({"self", "other"}) \/ EmitNext
SelfConnectSpec == SignalSpecInit /\ [][SelfConnectNext]_vars

----------------------------------------------------------------------------
(* AsyncSignals: the signal table of a widget *)

TableKeys == {"foo", "bar"}

\* the AsyncSignal objects the table constructs, in the order of construction
SignalNames == <<"s1", "s2", "s3">>

\* what is assigned or added: the signal looked up under a key of the same
\* table, a signal the caller constructed itself, or a bound method
SetSources == TableKeys \cup {"other"}
AddSources == TableKeys \cup {"other", "m"}

\* defaultdict(AsyncSignal): a missing key gets a newly constructed signal
Create_Always(sigs, k) ==
    [j \in DOMAIN sigs \cup {k} |->
        IF j = k
        THEN [id |-> SignalNames[Cardinality(DOMAIN sigs) + 1], handlers |-> <<>>]
        ELSE sigs[j]]
Create(sigs, k) ==
    IF k \in DOMAIN sigs THEN sigs
    ELSE [j \in DOMAIN sigs \cup {k} |->
            IF j = k
            THEN [id |-> SignalNames[Cardinality(DOMAIN sigs) + 1],
                  handlers |-> <<>>]
            ELSE sigs[j]]

\* the value of the expression src: table[src] is a lookup of its own
Eval(sigs, src) ==
    IF src \in TableKeys
    THEN [sigs |-> Create(sigs, src), value |-> Create(sigs, src)[src].id]
    ELSE [sigs |-> sigs, value |-> src]

\* the outcome of an operation on the table
TableOutcome(name, k, exc, value) ==
    [op |-> name, raised |-> exc, args |-> k,
     before |-> Cardinality(DOMAIN signals), calls |-> <<>>, results |-> value]

\* table[k]
GetItem(k) ==
    /\ signals' = Create(signals, k)
    /\ outcome' = TableOutcome("getitem", k, "None", <<signals'[k].id>>)
    /\ UNCHANGED <<tableVars, tree, flex_call, ret, uiVars, widgetVars, timerVars, signal_class,
                   handlers, lifetime, task, appVars>>

\* table[k] = src
SetItem(k, src) ==
    LET e == Eval(signals, src)
        stored == Create(e.sigs, k)
    IN  /\ signals' = stored
        /\ outcome' = TableOutcome("setitem", k,
                                   IF e.value # stored[k].id THEN "ValueError"
                                   ELSE "None",
                                   <<>>)
        /\ UNCHANGED <<tableVars, tree, flex_call, ret, uiVars, widgetVars, timerVars, signal_class,
                       handlers, lifetime, task, appVars>>

\* table[k] += src: the lookup of table[k], the value of src, __add__ on the
\* signal, and the assignment of its result, the signal itself, to table[k]
IAdd(k, src) ==
    LET e == Eval(Create(signals, k), src)
        self == e.sigs[k]
    IN  /\ IF e.value = self.id
           THEN /\ signals' = e.sigs
                /\ outcome' = TableOutcome("iadd", k, "RuntimeError", <<>>)
           ELSE /\ signals' = [e.sigs EXCEPT ![k].handlers =
                                 connect(self.handlers, e.value, lifetime)]
                /\ outcome' = TableOutcome("iadd", k, "None", <<>>)
        /\ UNCHANGED <<tableVars, tree, flex_call, ret, uiVars, widgetVars, timerVars, signal_class,
                       handlers, lifetime, task, appVars>>

AsyncSignalsInit ==
    /\ TableInit
    /\ tree = <<>>
    /\ flex_call = NoFlexCall
    /\ ret = "None"
    /\ signal_class = "AsyncSignal"
    /\ SignalInit
    /\ NoViewsNoTimer
    /\ NoWidgets

AsyncSignalsNext ==
    \/ \E k \in TableKeys : GetItem(k)
    \/ \E k \in TableKeys, src \in SetSources : SetItem(k, src)
    \/ \E k \in TableKeys, src \in AddSources : IAdd(k, src)

AsyncSignalsSpec == AsyncSignalsInit /\ [][AsyncSignalsNext]_vars

----------------------------------------------------------------------------
(* init_signals *)

\* the classes a widget class is derived through, below Widget
MaxClasses == 3

\* the annotations of the class bodies the application writes
ClassBodies ==
    { <<>>,
      << <<"on_foo", "Signal">> >>,
      << <<"on_bar", "Signal">> >>,
      << <<"on_foo", "Signal">>, <<"on_bar", "Signal">> >>,
      << <<"on_bar", "str">> >> }

\* a class that is no Widget and annotates a name with Widget.Signal
MixinClass ==
    [name |-> "Mixin", is_widget |-> FALSE, has_init |-> FALSE,
     annotations |-> << <<"on_foo", "Signal">> >>]

\* klass.__annotations__ guarded by "__annotations__" in klass.__dict__: the
\* annotations of the body of klass itself, whatever else the body defines
OwnAnnotations_NeedsInit(klass) ==
    IF klass.has_init THEN klass.annotations ELSE <<>>
OwnAnnotations(klass) == klass.annotations

\* annotation is Widget.Signal
IsSignalAnnotation_Any(annotation) == TRUE
IsSignalAnnotation(annotation) == annotation = "Signal"

\* the (class, name) pairs the loops of init_signals reach the duplicate
\* test with, in order: the classes from i on, base classes first
RECURSIVE SignalDeclarations(_, _)
SignalDeclarations(mro, i) ==
    IF i > Len(mro) THEN <<>>
    ELSE LET klass == mro[i]
             IsSignal(a) == IsSignalAnnotation(a[2])
             Named(a) == [klass |-> klass.name, name |-> a[1]]
             own == SelectSeq(OwnAnnotations(klass), IsSignal)
         IN  (IF ~klass.is_widget THEN <<>>
              ELSE [j \in 1..Len(own) |-> Named(own[j])])
             \o SignalDeclarations(mro, i + 1)

\* the body of the inner loop of init_signals from declaration i on:
\* KeyError for a name in signal_defs, else setattr(obj, name, obj.on[name])
RECURSIVE SetSignalAttributes(_, _, _, _)
SetSignalAttributes(o, signal_defs, decls, i) ==
    IF i > Len(decls) THEN o
    ELSE LET name == decls[i].name
             on == Create(o.on, name)
         IN  IF name \in signal_defs
             THEN [o EXCEPT !.raised = "KeyError"]
             ELSE SetSignalAttributes(
                    [o EXCEPT !.on = on,
                              !.attrs = [k \in DOMAIN @ \cup {name} |->
                                            IF k = name THEN on[name].id
                                            ELSE @[k]]],
                    signal_defs \cup {name}, decls, i + 1)

\* init_signals(obj)
init_signals(o) ==
    SetSignalAttributes(o, {}, SignalDeclarations(o.mro, 1), 1)

\* class Derived(Base) with the annotations body, with or without __init__,
\* Base being the class derived last
Subclass(body, has_init) ==
    /\ Len(obj.mro) < MaxClasses + 2
    /\ obj' = [NewObject EXCEPT !.mro = Append(obj.mro,
                 [name |-> "Derived", is_widget |-> TRUE,
                  has_init |-> has_init, annotations |-> body])]
    /\ ret' = "None"
    /\ UNCHANGED <<tableVars, tree, flex_call, signalVars, signals, uiVars,
                   widgetVars, timerVars, main>>

\* the class derived next lists Mixin before its Widget base
Mixin ==
    /\ Len(obj.mro) < MaxClasses + 1
    /\ obj.mro[Len(obj.mro)].is_widget
    /\ obj' = [NewObject EXCEPT !.mro = Append(obj.mro, MixinClass)]
    /\ ret' = "None"
    /\ UNCHANGED <<tableVars, tree, flex_call, signalVars, signals, uiVars,
                   widgetVars, timerVars, main>>

\* an object of the class derived last is constructed with an empty on
\* table, and init_signals is called on it
InitSignals ==
    /\ obj.mro[Len(obj.mro)].is_widget
    /\ obj' = init_signals([NewObject EXCEPT !.mro = obj.mro])
    /\ ret' = obj'.raised
    /\ UNCHANGED <<tableVars, tree, flex_call, signalVars, signals, uiVars,
                   widgetVars, timerVars, main>>

InitSignalsInit ==
    /\ TableInit
    /\ tree = <<>>
    /\ flex_call = NoFlexCall
    /\ ret = "None"
    /\ signal_class = "AsyncSignal"
    /\ SignalInit
    /\ NoViewsNoTimer
    /\ NoWidgets

InitSignalsNext ==
    \/ \E body \in ClassBodies, has_init \in BOOLEAN : Subclass(body, has_init)
    \/ Mixin
    \/ InitSignals

InitSignalsSpec == InitSignalsInit /\ [][InitSignalsNext]_vars

----------------------------------------------------------------------------
(* Widget.on_input: the dispatch of a key through the widget tree *)

\* The dispatch names of the keystrokes a terminal delivers.
\* A terminal delivers a keystroke with a code, for a key that has a name,
\* and the text that was typed.
KEY_TAB == [code |-> "KEY_TAB", str |-> "\t"]
KEY_DOWN == [code |-> "KEY_DOWN", str |-> "ESC[B"]
KEY_LEFT == [code |-> "KEY_LEFT", str |-> "ESC[D"]
KEY_RIGHT == [code |-> "KEY_RIGHT", str |-> "ESC[C"]
LetterQ == [code |-> "None", str |-> "q"]
LetterX == [code |-> "None", str |-> "x"]
KEY_BTAB == [code |-> "KEY_BTAB", str |-> "ESC[Z"]
KEY_ENTER == [code |-> "KEY_ENTER", str |-> "\n"]
Keystrokes == {KEY_TAB, KEY_DOWN, KEY_LEFT, KEY_RIGHT, LetterQ, LetterX}

\* key.code or str(key): the key of the signal table the handlers are
\* looked up under
SignalKey_Tab(key) == "KEY_TAB"
SignalKey(key) == IF key.code # "None" THEN key.code ELSE key.str

\* the (label, value) choices of a YesNoMessageBox
Choices == << <<"Yes", "True">>, <<"No", "False">> >>

\* Widget.__init__ (with the fields of MessageBox.__init__), the layout
\* fields left out
WidgetFields(kind, p, children) ==
    [kind |-> kind, parent |-> p, widgets |-> children, focus_index |-> 0,
     current_choice |-> 0,
     choices |-> IF kind = "MessageBox" THEN Choices ELSE <<>>]

\* The widgets: a root window, in it a view that moves the focus between
\* its two children with Tab, as DeploymentsView does, and in the view a
\* table and a message box.
Root == 1
UiWidgets == 1..4
UiTree ==
    <<WidgetFields("Widget", 0, <<2>>),
      WidgetFields("View", 1, <<3, 4>>),
      WidgetFields("Table", 2, <<>>),
      WidgetFields("MessageBox", 2, <<>>)>>

\* the handler that the constructor of a widget of this kind connects to the
\* signal of the key, "None" without one
BuiltinHandler_EnterAborts(kind, name) ==
    CASE kind = "MessageBox" /\ name \in {"KEY_TAB", "KEY_RIGHT"} -> "next_choice"
      [] kind = "MessageBox" /\ name \in {"KEY_BTAB", "KEY_LEFT"} -> "prev_choice"
      [] kind = "MessageBox" /\ name \in {"KEY_EXIT", "q", "KEY_ENTER"} ->
           "on_abort"
      [] OTHER -> "None"
BuiltinHandler(kind, name) ==
    CASE kind = "View" /\ name = "KEY_TAB" -> "focus_next_slot"
      [] kind = "View" /\ name = "KEY_BTAB" -> "focus_prev_slot"
      [] kind = "MessageBox" /\ name \in {"KEY_TAB", "KEY_RIGHT"} -> "next_choice"
      [] kind = "MessageBox" /\ name \in {"KEY_BTAB", "KEY_LEFT"} -> "prev_choice"
      [] kind = "MessageBox" /\ name \in {"KEY_EXIT", "q"} -> "on_abort"
      [] kind = "MessageBox" /\ name = "KEY_ENTER" -> "on_select"
      [] OTHER -> "None"

\* Widget._set_focus_index
SetFocusIndex_Clamp(wf, index) ==
    [wf EXCEPT !.focus_index = PyMax(0, PyMin(index, Len(wf.widgets) - 1))]
SetFocusIndex(wf, index) ==
    IF wf.widgets = <<>> THEN [wf EXCEPT !.focus_index = 0]
    ELSE [wf EXCEPT !.focus_index =
            (index + Len(wf.widgets)) % Len(wf.widgets)]

\* Widget.focused_widget, 0 for None
FocusedWidget_First(wf) == IF wf.widgets # <<>> THEN wf.widgets[1] ELSE 0
FocusedWidget(wf) ==
    IF 0 <= wf.focus_index /\ wf.focus_index < Len(wf.widgets)
    THEN wf.widgets[wf.focus_index + 1] ELSE 0

\* what running the handler does to its widget
HandlerEffect(wf, handler) ==
    CASE handler = "focus_next_slot" -> SetFocusIndex(wf, wf.focus_index + 1)
      [] handler = "focus_prev_slot" -> SetFocusIndex(wf, wf.focus_index - 1)
      [] handler = "next_choice" ->
           [wf EXCEPT !.current_choice = (@ + 1) % Len(wf.choices)]
      [] handler = "prev_choice" ->
           [wf EXCEPT !.current_choice =
                        (@ + Len(wf.choices) - 1) % Len(wf.choices)]
      [] OTHER -> wf

\* The handler returns a truthy value: the slots return None; on_abort and
\* on_select are signals of the message box and return the list of their own
\* handlers' results, which is truthy when slot says they have a handler.
HandlerTruthy(handler, slot) == handler \in {"on_abort", "on_select"} /\ slot

\* The emission that the handler makes: on_abort and on_select are signals
\* and are called, as every handler of the key is, with the widget and the
\* key.
HandlerEmits(w, key, handler) ==
    IF handler \in {"on_abort", "on_select"}
    THEN <<[signal |-> handler, args |-> [widget |-> w, key |-> key]]>>
    ELSE <<>>

\* Widget.on_input on widget w of u. truthy holds the widgets on which a
\* handler connected by the application to the signal of this key returns a
\* truthy value. Yields the widgets after the handlers ran, the widgets whose
\* on_input was called, in order, the emissions of on_abort and on_select
\* and what the on_input of w returned.
RECURSIVE WidgetOnInput(_, _, _, _, _)
WidgetOnInput(u, w, key, truthy, slot) ==
    LET handler == BuiltinHandler(u[w].kind, SignalKey(key))
        u1 == [u EXCEPT ![w] = HandlerEffect(u[w], handler)]
        focused == FocusedWidget(u1[w])
        emitted == HandlerEmits(w, key, handler)
    IN  IF w \in truthy \/ HandlerTruthy(handler, slot)
        THEN [ui |-> u1, chain |-> <<w>>, emitted |-> emitted,
              result |-> "True"]
        ELSE IF focused # 0
        THEN [WidgetOnInput(u1, focused, key, truthy, slot)
                EXCEPT !.chain = <<w>> \o @, !.emitted = emitted \o @]
        ELSE [ui |-> u1, chain |-> <<w>>, emitted |-> emitted,
              result |-> "False"]

\* await root.on_input(key). A table that the key reaches is the table of the
\* table variables: its Widget.on_input is the dispatch above, and when that
\* returns False the table tries its own keys.
Input(key, truthy, slot) ==
    \E r \in {WidgetOnInput(ui, Root, key, truthy, slot)} :
        /\ ui' = r.ui
        /\ received' = [key |-> key, truthy |-> truthy, slot |-> slot,
                        chain |-> r.chain, emitted |-> r.emitted]
        /\ IF ui[r.chain[Len(r.chain)]].kind = "Table"
           THEN TableOnInput(SignalKey(key), r.result = "True")
           ELSE /\ ret' = r.result
                /\ UNCHANGED <<selected_index, view_offset, left_column>>
        /\ UNCHANGED <<data, widths, size_x, size_y, focus_index, tree,
                       flex_call, signalVars, signals,
                       widgetVars, timerVars, appVars>>

\* widget.focus_next() and widget.focus_prev()
FocusNext(w) ==
    /\ ui' = [ui EXCEPT ![w] = SetFocusIndex(ui[w], ui[w].focus_index + 1)]
    /\ received' = NoInput
    /\ ret' = "None"
    /\ UNCHANGED <<tableVars, tree, flex_call, signalVars, signals,
                       widgetVars, timerVars, appVars>>

FocusPrev(w) ==
    /\ ui' = [ui EXCEPT ![w] = SetFocusIndex(ui[w], ui[w].focus_index - 1)]
    /\ received' = NoInput
    /\ ret' = "None"
    /\ UNCHANGED <<tableVars, tree, flex_call, signalVars, signals,
                       widgetVars, timerVars, appVars>>

\* the widgets as constructed; the table has been given two rows and a size
\* of 8 x 3
DispatchInit ==
    /\ data = SubSeq(Records, 1, 2)
    /\ widths = CalcWidths(SubSeq(Records, 1, 2))
    /\ selected_index = 0
    /\ view_offset = 0
    /\ left_column = 0
    /\ size_x = 8
    /\ size_y = 3
    /\ focus_index = 0
    /\ tree = <<>>
    /\ flex_call = NoFlexCall
    /\ ret = "None"
    /\ signal_class = "AsyncSignal"
    /\ SignalInit
    /\ NoViewsNoTimer
    /\ signals = NoSignals
    /\ ui = UiTree
    /\ received = NoInput

DispatchNext ==
    \/ \E key \in Keystrokes, truthy \in SUBSET UiWidgets, slot \in BOOLEAN :
         Input(key, truthy, slot)
    \/ \E w \in UiWidgets : FocusNext(w)
    \/ \E w \in UiWidgets : FocusPrev(w)

DispatchSpec == DispatchInit /\ [][DispatchNext]_vars

----------------------------------------------------------------------------
(* MessageBox *)

\* the keys pressed while a message box is shown
BoxKeystrokes == {KEY_TAB, KEY_BTAB, KEY_LEFT, KEY_RIGHT, KEY_ENTER, LetterQ,
                  LetterX}

\* the choices a message box is constructed with: those of a YesNoMessageBox
\* with further ones after them, or the first of them only
ChoiceLists ==
    {[i \in 1..n |-> IF i <= Len(Choices) THEN Choices[i]
                     ELSE <<"Later", "None">>] : n \in 1..MaxChoices}
\* the values the application assigns to choice_index
ChoiceIndices == -1..(MaxChoices + 1)

\* MessageBox.choice
Choice(wf) == wf.choices[wf.current_choice + 1]

\* the setter of MessageBox.choice_index
ChoiceIndexSetter_NoLower(wf, value) ==
    [wf EXCEPT !.current_choice = PyMin(value, Len(wf.choices) - 1)]
ChoiceIndexSetter(wf, value) ==
    [wf EXCEPT !.current_choice = PyMin(PyMax(0, value), Len(wf.choices) - 1)]

\* messagebox.choice_index = value
SetChoiceIndex(w, value) ==
    /\ ui[w].kind = "MessageBox"
    /\ ui' = [ui EXCEPT ![w] = ChoiceIndexSetter(ui[w], value)]
    /\ received' = NoInput
    /\ ret' = "None"
    /\ UNCHANGED <<tableVars, tree, flex_call, signalVars, signals,
                   widgetVars, timerVars, appVars>>

\* a message box that is the root, as shown alone
MessageBoxInit ==
    /\ TableInit
    /\ tree = <<>>
    /\ flex_call = NoFlexCall
    /\ ret = "None"
    /\ signal_class = "AsyncSignal"
    /\ SignalInit
    /\ NoViewsNoTimer
    /\ signals = NoSignals
    /\ \E choices \in ChoiceLists :
          ui = <<[WidgetFields("MessageBox", 0, <<>>)
                    EXCEPT !.choices = choices]>>
    /\ received = NoInput

MessageBoxNext ==
    \/ \E key \in BoxKeystrokes, truthy \in SUBSET {Root}, slot \in BOOLEAN :
          Input(key, truthy, slot)
    \/ \E value \in ChoiceIndices : SetChoiceIndex(Root, value)

MessageBoxSpec == MessageBoxInit /\ [][MessageBoxNext]_vars

----------------------------------------------------------------------------
(* Widget: the focus among the children *)

\* Widget(parent, ...): the new widget is appended to its parent's children
NewChild(p) ==
    /\ Len(ui) < MaxFocusWidgets
    /\ ui' = Append([ui EXCEPT ![p].widgets = Append(@, Len(ui) + 1)],
                    WidgetFields("Widget", p, <<>>))
    /\ received' = NoInput
    /\ ret' = "None"
    /\ UNCHANGED <<tableVars, tree, flex_call, signalVars, signals,
                   widgetVars, timerVars, appVars>>

\* Widget.has_focus
RECURSIVE HasFocus(_, _)
HasFocus_ParentOnly(u, w) ==
    IF u[w].parent # 0 THEN FocusedWidget(u[u[w].parent]) = w ELSE TRUE
HasFocus(u, w) ==
    IF u[w].parent # 0
    THEN FocusedWidget(u[u[w].parent]) = w /\ HasFocus(u, u[w].parent)
    ELSE TRUE

\* a root widget without children
FocusInit ==
    /\ TableInit
    /\ tree = <<>>
    /\ flex_call = NoFlexCall
    /\ ret = "None"
    /\ signal_class = "AsyncSignal"
    /\ SignalInit
    /\ NoViewsNoTimer
    /\ signals = NoSignals
    /\ ui = <<WidgetFields("Widget", 0, <<>>)>>
    /\ received = NoInput

FocusSpecNext ==
    \/ \E p \in 1..Len(ui) : NewChild(p)
    \/ \E w \in 1..Len(ui) : FocusNext(w)
    \/ \E w \in 1..Len(ui) : FocusPrev(w)

FocusSpec == FocusInit /\ [][FocusSpecNext]_vars

----------------------------------------------------------------------------
(* C1 *)

\* C1, as claimed: for every non-empty sequence of children flex weights and
\* every size, _flex_offsets returns offsets that start at 0 and end at the
\* size, so that the children's extents sum to it without gap or overlap.
C1_OffsetsPartitionExtent ==
    flex_call.flexes # <<>> =>
      /\ ~flex_call.result.raised
      /\ PartitionsExtent(flex_call.result.offsets, Len(flex_call.flexes),
                          flex_call.size)

\* C1, amended: the same for every non-empty sequence of non-negative flex
\* weights that are not all zero.
C1_OffsetsPartitionExtentPositiveSum ==
    (flex_call.flexes # <<>> /\ \E i \in 1..Len(flex_call.flexes) :
                                   flex_call.flexes[i] > 0) =>
      /\ ~flex_call.result.raised
      /\ PartitionsExtent(flex_call.result.offsets, Len(flex_call.flexes),
                          flex_call.size)

\* weights 2 and 1 over an extent of 40: the division leaves a remainder
C1_Witness ==
    /\ flex_call.flexes = <<2, 1>>
    /\ flex_call.size = 40
    /\ flex_call.result.offsets = <<0, 26, 40>>

\* the rectangle of widget c lies inside the rectangle of widget p
Inside(c, p) ==
    /\ p.origin_x <= c.origin_x
    /\ p.origin_y <= c.origin_y
    /\ c.origin_x + c.size_x <= p.origin_x + p.size_x
    /\ c.origin_y + c.size_y <= p.origin_y + p.size_y

----------------------------------------------------------------------------
(* C2 *)

\* C2: after on_resize of the root has returned, the rectangle of every child
\* in the tree lies inside the rectangle of its parent.
C2_ChildrenInsideParent ==
    [][(RootOnResizeStep /\ ret' = "None") =>
         \A c \in 2..Len(tree') : Inside(tree'[c], tree'[tree'[c].parent])]_vars

----------------------------------------------------------------------------
(* Table: the steps the properties speak about *)

SetSelectedIndexStep == \E index \in Indices : SetSelectedIndex(index)
TableOnResizeStep ==
    \E width \in ResizeWidths, height \in Heights : TableOnResize(width, height)

\* the selected row lies among the rows that fit below the header line
SelectedRowVisible(sel, vo, height) == vo <= sel /\ sel < vo + (height - 1)

\* index clamped into [0, n-1], for n >= 1
ClampedInto(index, n) ==
    IF index < 0 THEN 0 ELSE IF index > n - 1 THEN n - 1 ELSE index

----------------------------------------------------------------------------
(* C3 *)

\* C3, as claimed: after every set_selected_index call, whatever the index,
\* the widget height and the row count, view_offset <= selected_index <
\* view_offset + (rows that fit below the header), and 0 <= selected_index <
\* len(rows) when rows is non-empty.
C3_VisibleAfterSetSelectedIndex ==
    [][SetSelectedIndexStep =>
         /\ SelectedRowVisible(selected_index', view_offset', size_y')
         /\ (data' # <<>> =>
               0 <= selected_index' /\ selected_index' < Len(data'))]_vars

\* C3, amended: the same after every set_selected_index call made while the
\* widget is at least two lines high, so that at least one row fits below the
\* header; the index range holds at every height.
C3_VisibleAfterSetSelectedIndexWhenARowFits ==
    [][SetSelectedIndexStep =>
         /\ (size_y' >= 2 =>
               SelectedRowVisible(selected_index', view_offset', size_y'))
         /\ (data' # <<>> =>
               0 <= selected_index' /\ selected_index' < Len(data'))]_vars

\* the view has scrolled down to keep the last of three rows on the last line
C3_Witness ==
    /\ Len(data) = 3
    /\ size_y = 3
    /\ selected_index = 2
    /\ view_offset = 1

----------------------------------------------------------------------------
(* C4 *)

\* C4: after on_resize to a new height at which at least one row fits below
\* the header, the selected row is inside the visible window: view_offset <=
\* selected_index < view_offset + rows that fit below the header.
C4_VisibleAfterResize ==
    [][(TableOnResizeStep /\ size_y' >= 2) =>
         SelectedRowVisible(selected_index', view_offset', size_y')]_vars

----------------------------------------------------------------------------
(* C5 *)

\* C5: whenever rows is non-empty, selected_index is in [0, len(rows)-1], also
\* after the rows were replaced by a shorter sequence.
C5_SelectedIndexInRange ==
    data # <<>> => 0 <= selected_index /\ selected_index < Len(data)

----------------------------------------------------------------------------
(* C6 *)

\* C6: whenever the row set is empty, selected_data is None (and no exception
\* leaves it), whatever selected_index is.
C6_EmptyRowsNoSelection ==
    data = <<>> => selected_data.kind = "None"

\* the rows became empty while a later row was selected
C6_Witness ==
    /\ data = <<>>
    /\ widths # <<>>
    /\ selected_index = 2

----------------------------------------------------------------------------
(* C7 *)

\* the printable length of a cell text: its tokens that are no escape sequence
PrintableLen(text) == Cardinality({i \in 1..Len(text) : text[i] # ESC})

\* C7: once the row set has been replaced, the width of each column is the
\* maximum of its title's length and the rendered lengths of its cells over
\* all rows (the title's length when there are no rows).
C7_ColumnWidthIsMax ==
    widths # <<>> =>
      /\ Len(widths) = NumColumns
      /\ \A c \in 1..NumColumns :
           LET lens == {Len(Titles[c])}
                         \cup {PrintableLen(data[r][c]) : r \in 1..Len(data)}
           IN  /\ widths[c] \in lens
               /\ \A l \in lens : l <= widths[c]

\* one column takes its width from a cell, the other from its title
C7_Witness ==
    /\ data = <<RowMain>>
    /\ widths = <<4, 5>>

----------------------------------------------------------------------------
(* C8 *)

\* C8: without a handler consuming the key, down or j set selected_index to
\* selected_index + 1 and up or k to selected_index - 1, clamped to
\* [0, len(rows)-1], and on_input returns True; with three rows and index 0,
\* down, down, up end at index 1.
C8_UpDownMoveByOne ==
    [][/\ \A key \in DownKeys \cup UpKeys :
            OnInput(key, FALSE) =>
              /\ ret' = "True"
              /\ (data # <<>> =>
                    selected_index' =
                      ClampedInto(selected_index
                                    + (IF key \in DownKeys THEN 1 ELSE -1),
                                  Len(data)))
       /\ LET after(key, sel) == ClampIndex(KeyIndex(key, sel, 3, size_y), 3)
          IN  after("KEY_UP", after("KEY_DOWN", after("KEY_DOWN", 0))) = 1]_vars

\* three rows, the second selected, and the last key was consumed
C8_Witness ==
    /\ Len(data) = 3
    /\ selected_index = 1
    /\ view_offset = 0
    /\ size_y = 4
    /\ ret = "True"

----------------------------------------------------------------------------
(* C9 *)

\* the data rows that fit in the visible window
VisibleRows(height) == PyMax(0, height - 1)

\* what Home and End ask of a non-empty table
C9_HomeEnd ==
    /\ OnInput("KEY_HOME", FALSE) => selected_index' = 0
    /\ OnInput("KEY_END", FALSE) => selected_index' = Len(data) - 1

\* C9, as claimed: on a non-empty table in which a row fits, page-down and
\* page-up move selected_index by the number of data rows that fit in the
\* visible window, clamped to [0, len(rows)-1]; Home selects 0 and End
\* len(rows)-1.
C9_PageMovesFullPage ==
    [][(data # <<>> /\ size_y >= 2) =>
         /\ \A key \in PageDownKeys \cup PageUpKeys :
              OnInput(key, FALSE) =>
                selected_index' =
                  ClampedInto(selected_index
                                + (IF key \in PageDownKeys
                                   THEN VisibleRows(size_y)
                                   ELSE -VisibleRows(size_y)),
                              Len(data))
         /\ C9_HomeEnd]_vars

\* C9, amended: page-down and page-up move selected_index by height - 2, one
\* less than the rows that fit below the header, clamped to [0, len(rows)-1];
\* Home selects 0 and End len(rows)-1.
C9_PageMovesHeightMinusTwo ==
    [][data # <<>> =>
         /\ \A key \in PageDownKeys \cup PageUpKeys :
              OnInput(key, FALSE) =>
                selected_index' =
                  ClampedInto(selected_index
                                + (IF key \in PageDownKeys
                                   THEN size_y - 2 ELSE -(size_y - 2)),
                              Len(data))
         /\ C9_HomeEnd]_vars

\* three rows in a window that shows three: a page from the first row ends
\* on the last, two rows further
C9_Witness ==
    /\ Len(data) = 3
    /\ size_y = 4
    /\ selected_index = 2
    /\ view_offset = 0
    /\ ret = "True"

----------------------------------------------------------------------------
(* C10 *)

\* C10: on a table that has its rows and is wider than its padding, the
\* left-column cursor stays within the columns, 0 <= left_column <=
\* number of columns - 1, so that at least one column is displayed.
C10_LeftColumnWithinColumns ==
    (widths # <<>> /\ size_x > 2 * column_padding) =>
      0 <= left_column /\ left_column <= NumColumns - 1

----------------------------------------------------------------------------
(* C11 *)

\* C11: when a Table that displays at least one row paints, the down arrow
\* is drawn exactly when some row lies below the last row that reached the
\* screen, and the up arrow exactly when some row lies above the first row
\* that reached the screen.
C11_ArrowsMatchHiddenRows ==
    LET painted == PaintedRows(view_offset, size_y, size_x, Len(data))
    IN  painted # {} =>
          /\ DownArrowDrawn(view_offset, size_y, size_x, Len(data))
               <=> (\E i \in 0..(Len(data) - 1) : \A j \in painted : i > j)
          /\ UpArrowDrawn(view_offset, size_y, size_x)
               <=> (\E i \in 0..(Len(data) - 1) : \A j \in painted : i < j)

----------------------------------------------------------------------------
(* C12 *)

\* every callable of the handler set is called exactly once by calls
CallsEachOnce(hs, calls) ==
    /\ Len(calls) = Len(hs)
    /\ \A h \in Registered(hs) :
         Cardinality({ i \in 1..Len(calls) : calls[i] = h }) = 1

\* results[i] is what the i-th called handler returned for arg
ResultsFollow(order, results, arg) ==
    /\ Len(results) = Len(order)
    /\ \A i \in 1..Len(order) : results[i] = HandlerReturn(order[i], arg)

\* C12: Signal.emit calls the connected live handlers in the order in which
\* they were connected and returns the list of their return values in that
\* same order.
C12_EmitInConnectionOrder ==
    [][\A arg \in EmitArgs :
         Emit(arg) =>
           /\ outcome'.raised = "None"
           /\ outcome'.calls = UnwrappedHandlers(handlers, lifetime)
           /\ ResultsFollow(outcome'.calls, outcome'.results, arg)]_vars

\* C12, amended: Signal.emit calls every connected live handler exactly once,
\* in the iteration order of the handler set, which need not be the order of
\* connection, and returns the list of their return values in the order of
\* the calls.
C12_EmitCallsEachHandlerOnce ==
    [][\A arg \in EmitArgs :
         Emit(arg) =>
           /\ outcome'.raised = "None"
           /\ CallsEachOnce(handlers, outcome'.calls)
           /\ ResultsFollow(outcome'.calls, outcome'.results, arg)]_vars

\* m was connected before f, and an emit has called f first
C12_Witness ==
    /\ signal_class = "Signal"
    /\ handlers = <<Wrap("m"), Wrap("f")>>
    /\ outcome.op = "emit"
    /\ outcome.calls = <<"f", "m">>
    /\ outcome.results = <<HandlerReturn("f", "foo"), HandlerReturn("m", "foo")>>

----------------------------------------------------------------------------
(* C13 *)

\* C13: connecting the same handler to a Signal or AsyncSignal any number of
\* times registers it once, and an emit calls that handler exactly once with
\* the emitted arguments.
C13_ConnectTwiceRegistersOnce ==
    [][/\ \A i, j \in 1..Len(handlers') :
            i # j => handlers'[i].referent # handlers'[j].referent
       /\ \A arg \in EmitArgs :
            /\ Emit(arg) =>
                 /\ outcome'.args = arg
                 /\ CallsEachOnce(handlers, outcome'.calls)
            /\ (AsyncEmitStart(arg) /\ task'.state = "running") =>
                 /\ task'.args = arg
                 /\ CallsEachOnce(handlers, task'.calls)]_vars

\* connect(m) on a handler set that already held m, and holds it once
C13_Witness ==
    /\ outcome.op = "connect"
    /\ outcome.args = "m"
    /\ outcome.before = 1
    /\ handlers = <<Wrap("m")>>

----------------------------------------------------------------------------
(* C14 *)

\* hs without the entry of f
Without(hs, f) ==
    LET Other(e) == e.referent # f
    IN  SelectSeq(hs, Other)

\* C14: disconnect(h) removes the registration of h, so that no later emit
\* calls h, and disconnect(h) of a handler that is not connected raises
\* KeyError and leaves the handler set unchanged.
C14_DisconnectRemovesOrRaises ==
    [][/\ \A f \in Callables :
            (Disconnect(f) \/ Sub(f)) =>
              IF f \in Registered(handlers)
              THEN /\ outcome'.raised = "None"
                   /\ handlers' = Without(handlers, f)
              ELSE /\ outcome'.raised = "KeyError"
                   /\ handlers' = handlers
       /\ \A arg \in EmitArgs :
            /\ Emit(arg) =>
                 { outcome'.calls[i] : i \in 1..Len(outcome'.calls) }
                   \subseteq Registered(handlers)
            /\ AsyncEmitStart(arg) =>
                 { task'.calls[i] : i \in 1..Len(task'.calls) }
                   \subseteq Registered(handlers)]_vars

\* disconnect(m) on a handler set that holds f only
C14_Witness ==
    /\ outcome.op = "disconnect"
    /\ outcome.args = "m"
    /\ outcome.raised = "KeyError"
    /\ handlers = <<Wrap("f")>>

----------------------------------------------------------------------------
(* C15 *)

\* the handlers owned by an owner in one of the given lifetime states are
\* out of the handler set; an emit raises nothing, calls none of them and
\* calls every handler whose owner is live
InertOnce(states) ==
    /\ \A o \in Owners :
         lifetime'[o] \in states => o \notin Registered(handlers')
    /\ \A arg \in EmitArgs :
         /\ Emit(arg) =>
              /\ outcome'.raised = "None"
              /\ \A o \in Owners :
                   /\ lifetime[o] \in states =>
                        o \notin { outcome'.calls[i] : i \in 1..Len(outcome'.calls) }
                   /\ (lifetime[o] = "live" /\ o \in Registered(handlers)) =>
                        o \in { outcome'.calls[i] : i \in 1..Len(outcome'.calls) }
         /\ AsyncEmitStart(arg) =>
              /\ outcome'.raised \in {"None", "pending"}
              /\ \A o \in Owners :
                   /\ lifetime[o] \in states =>
                        o \notin { task'.calls[i] : i \in 1..Len(task'.calls) }
                   /\ (lifetime[o] = "live" /\ o \in Registered(handlers)) =>
                        o \in { task'.calls[i] : i \in 1..Len(task'.calls) }

\* C15: once the owner of a connected handler is unreachable, every later
\* emit completes without raising and does not call that handler, the handler
\* is no longer in the handler set, and the other live handlers are called.
C15_UnreachableOwnerIsInert == [][InertOnce({"garbage", "collected"})]_vars

\* C15, amended: once the owner of a connected handler has been collected
\* (its last reference dropped and, for an owner in a reference cycle, the
\* collector run), every later emit completes without raising and does not
\* call that handler, the handler is no longer in the handler set, and the
\* other live handlers are called.
C15_CollectedOwnerIsInert == [][InertOnce({"collected"})]_vars

\* f was connected to a set that held one entry, and after the owner of m
\* was collected the set holds f alone
C15_Witness ==
    /\ outcome.op = "connect"
    /\ outcome.args = "f"
    /\ outcome.before = 1
    /\ lifetime["m"] = "collected"
    /\ handlers = <<Wrap("f")>>

----------------------------------------------------------------------------
(* C16 *)

\* C16: connecting a signal to itself fails at once with RuntimeError and
\* leaves its handler set unchanged, through connect() and through +=, and
\* connecting a different signal object succeeds.
C16_SelfConnectionRejected ==
    [][/\ (Connect("self") \/ Add("self")) =>
            /\ outcome'.raised = "RuntimeError"
            /\ handlers' = handlers
       /\ (Connect("other") \/ Add("other")) =>
            /\ outcome'.raised = "None"
            /\ "other" \in Registered(handlers')]_vars

----------------------------------------------------------------------------
(* C18 *)

\* C18: AsyncSignal.emit calls every live connected handler exactly once with
\* the emitted arguments, returns only after every task has finished, and
\* returns the results in the order in which the tasks finished; with no
\* handlers it returns the empty list.
C18_AsyncEmitAwaitsAll ==
    [][/\ \A arg \in EmitArgs :
            (AsyncEmitStart(arg) /\ task'.state = "running") =>
              /\ task'.args = arg
              /\ CallsEachOnce(handlers, task'.calls)
       /\ AsyncEmitReturn =>
            /\ task.pending = {}
            /\ CallsEachOnce([i \in 1..Len(task.calls) |-> Wrap(task.calls[i])],
                             task.completed)
            /\ ResultsFollow(task.completed, outcome'.results, task.args)
            /\ task.calls = <<>> => outcome'.results = <<>>]_vars

\* m was connected and called before f, f finished first, and the emit
\* returned f's result first
C18_Witness ==
    /\ signal_class = "AsyncSignal"
    /\ handlers = <<Wrap("m"), Wrap("f")>>
    /\ task.state = "idle"
    /\ outcome.op = "emit"
    /\ outcome.raised = "None"
    /\ outcome.calls = <<"m", "f">>
    /\ outcome.results = <<HandlerReturn("f", "bar"), HandlerReturn("m", "bar")>>

----------------------------------------------------------------------------
(* C17 *)

\* every signal stored before the step is stored unchanged after it, and a
\* key that the step added holds a new signal without handlers
StoredUntouched ==
    /\ \A j \in DOMAIN signals : j \in DOMAIN signals' /\ signals'[j] = signals[j]
    /\ \A j \in DOMAIN signals' \ DOMAIN signals :
         /\ signals'[j].handlers = <<>>
         /\ \A i \in DOMAIN signals : signals[i].id # signals'[j].id

\* C17: in a signal table a lookup of a key yields the same signal object
\* every time, made on the first lookup; assigning to a key any signal other
\* than the one stored under it raises ValueError and leaves every stored
\* signal as it was (a key never looked up before gets the empty signal
\* that its first lookup makes); the assignment that table[k] += handler
\* ends with is accepted.
C17_SignalTableKeepsItsSignals ==
    [][/\ \A j \in DOMAIN signals :
            j \in DOMAIN signals' /\ signals'[j].id = signals[j].id
       /\ \A i, j \in DOMAIN signals' :
            i # j => signals'[i].id # signals'[j].id
       /\ \A k \in TableKeys :
            /\ GetItem(k) =>
                 /\ outcome'.results = <<signals'[k].id>>
                 /\ StoredUntouched
            /\ \A src \in SetSources :
                 SetItem(k, src) =>
                   /\ outcome'.raised = IF src = k THEN "None" ELSE "ValueError"
                   /\ StoredUntouched
            /\ \A src \in AddSources \ {k} :
                 IAdd(k, src) =>
                   /\ outcome'.raised = "None"
                   /\ \A j \in DOMAIN signals \ {k} : signals'[j] = signals[j]]_vars

\* table["foo"] = table["bar"] was refused, and table["foo"] still holds its
\* signal with the handler m
C17_Witness ==
    /\ outcome.op = "setitem"
    /\ outcome.args = "foo"
    /\ outcome.raised = "ValueError"
    /\ DOMAIN signals = {"foo", "bar"}
    /\ signals["foo"].handlers = <<Wrap("m")>>

----------------------------------------------------------------------------
(* C19 *)

\* a handler connected to the signal of the dispatched key on widget w
\* returned a truthy value: one of the application, or on_abort, the signal
\* of a message box that has a handler, for q
ReturnedTruthy(w) ==
    \/ w \in received'.truthy
    \/ /\ ui[w].kind = "MessageBox"
       /\ received'.key = LetterQ
       /\ received'.slot

\* C19: in Widget.on_input(key), when a handler connected on the widget for
\* that key returns a truthy value, on_input returns True and no child
\* receives the key; otherwise the key goes to the currently focused child
\* only, whose result is returned, and without a focused child on_input
\* returns False (a Table then tries its own keys).
C19_HandlersFirstThenFocusedChild ==
    [][received'.key # NoKey =>
         LET chain == received'.chain
         IN  /\ chain # <<>>
             /\ chain[1] = Root
             /\ \A i \in 1..Len(chain) :
                  IF ReturnedTruthy(chain[i])
                  THEN /\ i = Len(chain)
                       /\ ret' = "True"
                  ELSE IF /\ 0 <= ui'[chain[i]].focus_index
                          /\ ui'[chain[i]].focus_index < Len(ui'[chain[i]].widgets)
                  THEN /\ i < Len(chain)
                       /\ chain[i + 1] =
                            ui'[chain[i]].widgets[ui'[chain[i]].focus_index + 1]
                  ELSE /\ i = Len(chain)
                       /\ ui[chain[i]].kind # "Table" => ret' = "False"]_vars

\* the view and the table below it both have a handler for x that returns
\* a truthy value: the key went to the root and the view and not further
C19_Witness ==
    /\ received.key = LetterX
    /\ received.truthy = {2, 3}
    /\ received.chain = <<1, 2>>
    /\ ret = "True"

----------------------------------------------------------------------------
(* C20 *)

\* the widgets from w down the focus, before the key is dispatched
RECURSIVE FocusChain(_, _)
FocusChain(u, w) ==
    IF 0 <= u[w].focus_index /\ u[w].focus_index < Len(u[w].widgets)
    THEN <<w>> \o FocusChain(u, u[w].widgets[u[w].focus_index + 1])
    ELSE <<w>>

\* the keys a View and a MessageBox connect a handler to when constructed
ViewKeys == {"KEY_TAB", "KEY_BTAB"}
MessageBoxKeys == {"KEY_TAB", "KEY_RIGHT", "KEY_BTAB", "KEY_LEFT", "KEY_EXIT",
                   "q", "KEY_ENTER"}

\* no handler is connected to the signal of the key on widget w
NoHandler(w, name) ==
    /\ w \notin received'.truthy
    /\ ui[w].kind = "View" => name \notin ViewKeys
    /\ ui[w].kind = "MessageBox" => name \notin MessageBoxKeys

\* C20: a key for which no widget on the focus chain has a handler and which
\* is not a navigation key of the Table is not consumed: on_input returns
\* False at the root, raises nothing and leaves focus indices, selection,
\* view offset, left column and the choice of the message box unchanged.
C20_UnhandledKeyChangesNothing ==
    [][received'.key # NoKey =>
         LET name == IF received'.key.code # "None" THEN received'.key.code
                     ELSE received'.key.str
             chain == FocusChain(ui, Root)
         IN  (/\ name \notin NavKeys
              /\ \A i \in 1..Len(chain) : NoHandler(chain[i], name)) =>
               /\ ret' = "False"
               /\ received'.chain = chain
               /\ ui' = ui
               /\ UNCHANGED tableVars]_vars

\* x went down to the table, whose second row is selected, and came back
\* unconsumed
C20_Witness ==
    /\ received.key = LetterX
    /\ received.truthy = {}
    /\ received.chain = <<1, 2, 3>>
    /\ selected_index = 1
    /\ ret = "False"

----------------------------------------------------------------------------
(* C21 *)

\* focus_next called k times in a row on a widget
RECURSIVE FocusNextTimes(_, _)
FocusNextTimes(wf, k) ==
    IF k = 0 THEN wf
    ELSE FocusNextTimes(SetFocusIndex(wf, wf.focus_index + 1), k - 1)

\* C21: for a widget with n >= 1 children the focus index stays within
\* 0..n-1 under focus_next and focus_prev; focus_next moves to the next
\* child and from the last child to the first, focus_prev to the previous
\* child and from the first to the last; focus_prev undoes focus_next, and n
\* focus_next calls in a row come back to the child they started from.
C21_FocusCyclesThroughChildren ==
    /\ [](\A w \in 1..Len(ui) :
            LET wf == ui[w]
                n == Len(wf.widgets)
                next == SetFocusIndex(wf, wf.focus_index + 1)
            IN  n >= 1 =>
                  /\ 0 <= wf.focus_index /\ wf.focus_index < n
                  /\ SetFocusIndex(next, next.focus_index - 1) = wf
                  /\ FocusNextTimes(wf, n) = wf)
    /\ [][\A w \in 1..Len(ui) :
            LET i == ui[w].focus_index
                n == Len(ui[w].widgets)
            IN  n >= 1 =>
                  /\ FocusNext(w) =>
                       ui'[w].focus_index = IF i = n - 1 THEN 0 ELSE i + 1
                  /\ FocusPrev(w) =>
                       ui'[w].focus_index = IF i = 0 THEN n - 1 ELSE i - 1]_vars

\* the root has three children and focuses the last of them; its first
\* child has two children and focuses the second
C21_Witness ==
    /\ Len(ui) = 6
    /\ Len(ui[1].widgets) = 3
    /\ ui[1].focus_index = 2
    /\ Len(ui[2].widgets) = 2
    /\ ui[2].focus_index = 1

----------------------------------------------------------------------------
(* C22 *)

\* the widgets from the root down to w
RECURSIVE PathFromRoot(_, _)
PathFromRoot(u, w) ==
    IF u[w].parent = 0 THEN <<w>> ELSE PathFromRoot(u, u[w].parent) \o <<w>>

\* every widget on the path to w selects the next one as its focused child
SelectedAlongPath(u, w) ==
    LET path == PathFromRoot(u, w)
    IN  \A i \in 1..(Len(path) - 1) :
          LET a == u[path[i]]
          IN  /\ 0 <= a.focus_index /\ a.focus_index < Len(a.widgets)
              /\ a.widgets[a.focus_index + 1] = path[i + 1]

\* C22: a widget has_focus exactly when every ancestor on the path from the
\* root selects the next widget of the path as its focused child; at most
\* one child of a widget has focus, and no child of a widget without focus
\* has focus.
C22_FocusFollowsThePathFromTheRoot ==
    /\ \A w \in 1..Len(ui) : HasFocus(ui, w) <=> SelectedAlongPath(ui, w)
    /\ \A p \in 1..Len(ui) :
          Cardinality({c \in 1..Len(ui) :
                         ui[c].parent = p /\ HasFocus(ui, c)}) <= 1
    /\ \A w \in 1..Len(ui) :
          (ui[w].parent # 0 /\ ~HasFocus(ui, ui[w].parent)) => ~HasFocus(ui, w)

\* a widget is the focused child of its parent, but the parent is not the
\* one the root focuses; elsewhere the focus reaches a grandchild of the root
C22_Witness ==
    /\ \E w \in 1..Len(ui) :
          /\ ui[w].parent # 0
          /\ FocusedWidget(ui[ui[w].parent]) = w
          /\ ~HasFocus(ui, ui[w].parent)
    /\ \E w \in 1..Len(ui) :
          /\ Len(PathFromRoot(ui, w)) = 3
          /\ ui[ui[w].parent].focus_index = 1
          /\ HasFocus(ui, w)

----------------------------------------------------------------------------
(* C23 *)

\* C23: out(x, y, text) appends nothing to the screen buffer when x is not
\* in 0..width-1 or y is not in 0..height-1, negative coordinates included;
\* otherwise it appends the text at (x + origin_x, y + origin_y).
C23_OutOnlyInsideBounds ==
    [][\A w \in 1..Len(tree) : \A x \in OutColumns(w), y \in OutRows(w) :
         Out(w, x, y, "|") =>
           IF /\ 0 <= x /\ x < tree[w].size_x
              /\ 0 <= y /\ y < tree[w].size_y
           THEN screen' = Append(screen, [x |-> x + tree[w].origin_x,
                                          y |-> y + tree[w].origin_y,
                                          text |-> "|"])
           ELSE screen' = screen]_vars

----------------------------------------------------------------------------
(* C24 *)

\* C24: a MultiView with several registered views has exactly one widget in
\* its list of children at any time, and after show(key) for a registered
\* key that widget is the one registered under key and current_view is key.
C24_ExactlyOneViewShown ==
    /\ [](Cardinality(DOMAIN multiview.views) >= 2 =>
            Len(tree[MainView].widgets) = 1)
    /\ [][\A key \in DOMAIN multiview.views :
            Show(key) =>
              /\ tree'[MainView].widgets = <<multiview.views[key]>>
              /\ multiview'.current_view = key]_vars

----------------------------------------------------------------------------
(* C25 *)

\* C25: show(key) followed by show(key) leaves what a single show(key)
\* leaves: the same current_view, the same single child and the same
\* geometry of every widget; each of the two calls emits on_view_switched
\* exactly once, and the handlers find the view swapped and resized.
C25_ShowTwiceIsShowOnce ==
    \A key \in DOMAIN multiview.views :
      LET once == show(multiview, tree, key)
          twice == show(once.multiview, once.tree, key)
      IN  once.multiview.raised = "None" =>
            /\ twice = once
            /\ once.multiview.current_view = key
            /\ once.tree[MainView].widgets = <<multiview.views[key]>>
            /\ once.multiview.switched = <<Emission(once.multiview, once.tree)>>
            /\ twice.multiview.switched =
                 <<Emission(twice.multiview, twice.tree)>>

\* two views are registered and REPOS has been shown on an 80 x 24 terminal:
\* one emission was made, and showing REPOS again changes nothing
C25_Witness ==
    /\ DOMAIN multiview.views = MultiViewKeys
    /\ multiview.views["DEPLOYMENTS"] # multiview.views["REPOS"]
    /\ multiview.current_view = "REPOS"
    /\ multiview.raised = "None"
    /\ tree[1].size_x = 80
    /\ tree[MainView].widgets = <<multiview.views["REPOS"]>>
    /\ multiview.switched =
         <<[args |-> <<>>, current_view |-> "REPOS",
            widgets |-> <<multiview.views["REPOS"]>>,
            sizes |-> <<<<80, 24>>>>]>>
    /\ show(multiview, tree, "REPOS") = [multiview |-> multiview, tree |-> tree]

----------------------------------------------------------------------------
(* C26 *)

\* the key of the last on_input reached the root message box with choices
\* Yes and No
YesNoBoxReceived(key) ==
    /\ received'.key = key
    /\ ui[Root].kind = "MessageBox"
    /\ ui[Root].choices = Choices

\* C26: on a message box with the choices ("Yes", true), ("No", false) and
\* choice index 1, left makes the highlighted index 0; enter then emits the
\* selected event, and the event carries the chosen value true.
C26_EnterEmitsSelectedWithValue ==
    [][/\ (YesNoBoxReceived(KEY_LEFT) /\ ui[Root].current_choice = 1) =>
            ui'[Root].current_choice = 0
       /\ (YesNoBoxReceived(KEY_ENTER) /\ ui[Root].current_choice = 0) =>
            /\ Len(received'.emitted) = 1
            /\ received'.emitted[1].signal = "on_select"
            /\ "value" \in DOMAIN received'.emitted[1].args
            /\ received'.emitted[1].args.value = "True"]_vars

\* C26 as the code has it: left makes the highlighted index 0; enter then
\* emits the selected event once, with the message box and the key as its
\* arguments, and the choice of the message box is ("Yes", true).
C26_EnterEmitsSelectedWithBox ==
    [][/\ (YesNoBoxReceived(KEY_LEFT) /\ ui[Root].current_choice = 1) =>
            ui'[Root].current_choice = 0
       /\ (YesNoBoxReceived(KEY_ENTER) /\ ui[Root].current_choice = 0) =>
            /\ received'.emitted =
                 <<[signal |-> "on_select",
                    args |-> [widget |-> Root, key |-> KEY_ENTER]]>>
            /\ Choice(ui'[Root]) = <<"Yes", "True">>]_vars

\* enter was pressed on the Yes/No box with Yes highlighted
C26_Witness ==
    /\ received.key = KEY_ENTER
    /\ ui[Root].kind = "MessageBox"
    /\ ui[Root].choices = Choices
    /\ ui[Root].current_choice = 0
    /\ Len(received.emitted) = 1
    /\ ret = "True"

----------------------------------------------------------------------------
(* C27 *)

\* C27: for a message box with n >= 1 choices the highlighted index stays
\* within 0..n-1; right and tab advance it by one, left and shift-tab move
\* it back by one, both wrapping around modulo n; assigning choice_index
\* clamps the value into 0..n-1.
C27_ChoiceIndexCyclesAndClamps ==
    /\ [](ui[Root].kind = "MessageBox" =>
            /\ 0 <= ui[Root].current_choice
            /\ ui[Root].current_choice < Len(ui[Root].choices))
    /\ [][LET n == Len(ui[Root].choices)
              i == ui[Root].current_choice
          IN  ui[Root].kind = "MessageBox" =>
                /\ received'.key \in {KEY_RIGHT, KEY_TAB} =>
                     ui'[Root].current_choice = IF i = n - 1 THEN 0 ELSE i + 1
                /\ received'.key \in {KEY_LEFT, KEY_BTAB} =>
                     ui'[Root].current_choice = IF i = 0 THEN n - 1 ELSE i - 1
                /\ \A value \in ChoiceIndices :
                     SetChoiceIndex(Root, value) =>
                       ui'[Root].current_choice =
                         IF value < 0 THEN 0
                         ELSE IF value > n - 1 THEN n - 1 ELSE value]_vars

\* shift-tab went from the first of three choices to the last
C27_Witness ==
    /\ ui[Root].kind = "MessageBox"
    /\ Len(ui[Root].choices) = 3
    /\ received.key = KEY_BTAB
    /\ ui[Root].current_choice = 2

----------------------------------------------------------------------------
(* C28 *)

\* C28: a timer is stopped and has invoked nothing until start is called;
\* start on a stopped timer marks it running and invokes the callback once
\* at once; start on a running timer changes nothing; at most one
\* reschedule is pending at any time.
C28_StartFiresOnceAndOnlyWhenStopped ==
    /\ [](loop.starts = 0 => timer.stopped /\ loop.call_count = 0)
    /\ [](Len(loop.scheduled) <= 1)
    /\ [][Start =>
            IF timer.stopped
            THEN /\ ~timer'.stopped
                 /\ loop'.call_count = loop.call_count + 1
                 /\ loop'.now = loop.now
            ELSE UNCHANGED <<timer, loop>>]_vars

\* the timer was started, stopped and started again and is running with one
\* reschedule pending
C28_Witness ==
    /\ loop.starts = 2
    /\ ~timer.stopped
    /\ loop.call_count >= 2
    /\ loop.scheduled = <<timer.handle.when>>

----------------------------------------------------------------------------
(* C29 *)

\* C29: a timer that is started once and stopped four and a half intervals
\* later has invoked its callback exactly 5 times, and the count does not
\* grow while it stays stopped.
C29_FiveCallsInFourAndAHalfIntervals ==
    [][/\ (/\ Stop
            /\ ~timer.stopped
            /\ loop.starts = 1
            /\ loop.now - loop.started_at = SleepTime) =>
              loop'.call_count = n_calls
       /\ (timer.stopped /\ timer'.stopped /\ loop.starts = 1) =>
              loop'.call_count = loop.call_count]_vars

\* the timer was started at time 0 and is stopped at four and a half
\* intervals, the reschedule for the fifth interval cancelled
C29_Witness ==
    /\ loop.starts = 1
    /\ loop.started_at = 0
    /\ loop.now = SleepTime
    /\ timer.stopped
    /\ timer.handle = [state |-> "cancelled", when |-> SleepTime + 1]
    /\ loop.call_count = n_calls

----------------------------------------------------------------------------
(* C30 *)

\* C30: when stop returns the timer is stopped and no reschedule is
\* pending; stop neither invokes the callback nor touches the invocations
\* in flight, which can still run to their end; while the timer is stopped
\* only start invokes the callback.
C30_StopCancelsOnlyTheReschedule ==
    /\ [][(Stop /\ ret' = "None") =>
            /\ timer'.stopped
            /\ loop'.scheduled = <<>>
            /\ loop'.tasks = loop.tasks
            /\ loop'.call_count = loop.call_count]_vars
    /\ [][(timer.stopped /\ loop'.call_count # loop.call_count) =>
            Start]_vars
    /\ [](loop.tasks > 0 => ENABLED CallbackDone)

\* the timer is stopped with its reschedule cancelled while two invocations
\* of the callback are still running
C30_Witness ==
    /\ timer.stopped
    /\ timer.handle.state = "cancelled"
    /\ loop.scheduled = <<>>
    /\ loop.tasks = 2
    /\ ret = "None"

----------------------------------------------------------------------------
(* C40 *)

\* C40: a connected handler that is not a bound method stays registered
\* until it is disconnected, whether or not the caller still holds a
\* reference to it, and every emit that runs while it is registered calls it.
C40_PlainHandlerHeldStrongly ==
    /\ [][("f" \in Registered(handlers) /\ ~Disconnect("f") /\ ~Sub("f")) =>
            "f" \in Registered(handlers')]_vars
    /\ [][((\E arg \in EmitArgs : Emit(arg)) /\ "f" \in Registered(handlers)) =>
            \E i \in 1..Len(outcome'.calls) : outcome'.calls[i] = "f"]_vars

----------------------------------------------------------------------------
(* C38 *)

\* C38: stop on a timer that is not running, one that was never started
\* included, returns without raising and leaves the timer stopped with no
\* reschedule pending.
C38_StopOnAStoppedTimerReturns ==
    [][(timer.stopped /\ Stop) =>
            /\ ret' = "None"
            /\ timer'.stopped
            /\ loop'.scheduled = <<>>]_vars

----------------------------------------------------------------------------
(* C39 *)

\* C39: show with a key that add never registered fails and leaves
\* current_view, the shown children and the geometry as they were, emits no
\* view-switched event, and current_view is always None or a registered key.
C39_ShowOfUnknownKeyChangesNothing ==
    /\ [][\A view \in MultiViewKeys :
            (Show(view) /\ view \notin DOMAIN multiview.views) =>
                /\ ret' = "KeyError"
                /\ multiview'.current_view = multiview.current_view
                /\ multiview'.switched = <<>>
                /\ tree' = tree]_vars
    /\ [](multiview.current_view \in DOMAIN multiview.views \cup {"None"})

----------------------------------------------------------------------------
(* C37 *)

\* the extent of widget w along the layout axis of its parent p
ExtentAlong(t, p, w) ==
    IF t[p].layout_dir_vertical THEN t[w].size_y ELSE t[w].size_x

\* the root has exactly two children, of flex weights 2 and 1 in this order
TwoToOneRoot ==
    /\ Len(tree[1].widgets) = 2
    /\ FlexesOf(tree, 1) = <<2, 1>>

\* C37: whenever a root with two children of flex weights 2 and 1 is resized,
\* from 80x24 to 40x10 in particular, the first child's extent along the
\* layout axis is floor(2/3 of the new size) and the second child's is the
\* remainder; across the axis both take the root's size.
C37_TwoToOneSplitAfterResize ==
    [][\A size \in TerminalSizes :
          (TwoToOneRoot /\ RootOnResize(size[1], size[2])) =>
             LET first == tree[1].widgets[1]
                 second == tree[1].widgets[2]
                 along == IF tree[1].layout_dir_vertical THEN size[2]
                          ELSE size[1]
                 across == IF tree[1].layout_dir_vertical THEN size[1]
                           ELSE size[2]
             IN  /\ ret' = "None"
                 /\ ExtentAlong(tree', 1, first) = (2 * along) \div 3
                 /\ ExtentAlong(tree', 1, second) =
                       along - (2 * along) \div 3
                 /\ IF tree[1].layout_dir_vertical
                    THEN tree'[first].size_x = across /\ tree'[second].size_x = across
                    ELSE tree'[first].size_y = across /\ tree'[second].size_y = across]_vars

\* a horizontal root laid out at 80x24 with children 53 and 27 columns wide
\* has been resized to 40x10: the children are 26 and 14 columns wide
C37_Witness ==
    /\ TwoToOneRoot
    /\ ~tree[1].layout_dir_vertical
    /\ tree[1].size_x = 40 /\ tree[1].size_y = 10
    /\ tree[tree[1].widgets[1]].size_x = 26
    /\ tree[tree[1].widgets[2]].size_x = 14
    /\ tree[tree[1].widgets[2]].origin_x = 26
    /\ tree[tree[1].widgets[1]].size_y = 10

----------------------------------------------------------------------------
(* C36 *)

\* the status bar is laid out: on_resize with its present size changes
\* nothing
StatusBarLaidOut ==
    \E r \in {StatusBarOnResize(tree, tree[1].size_x, tree[1].size_y)} :
        ~r.raised /\ r.t = tree

\* C36: after the status bar's on_resize(w, h) with h >= 1 its height is h
\* and every child lies within rows 0..h-2; a paint of the laid-out status
\* bar prints the status text on row h-1 only, and nothing a child prints
\* is on that row.
C36_ChildrenStayAboveTheStatusLine ==
    /\ [][\A size \in StatusSizes :
            (size[2] >= 1 /\ StatusBarResize(size[1], size[2])) =>
               /\ ret' = "None"
               /\ tree'[1].size_y = size[2]
               /\ tree'[1].size_x = size[1]
               /\ \A c \in 2..Len(tree) :
                     /\ tree'[c].origin_y >= 0
                     /\ tree'[c].origin_y + tree'[c].size_y <= size[2] - 1]_vars
    /\ [][\A text \in StatusTexts :
            (StatusBarLaidOut /\ tree[1].size_y >= 1 /\ StatusBarPaint(text)) =>
               LET h == tree[1].size_y
                   n == Len(screen')
               IN  /\ screen'[n] = [x |-> 0, y |-> h - 1, text |-> text]
                   /\ \A i \in 1..(n - 1) :
                         /\ screen'[i].text \in {" ", "{"}
                         /\ screen'[i].y >= 0
                         /\ screen'[i].y < h - 1]_vars

\* a 10x5 status bar with two placeholders has been painted: the last print
\* is the status text on row 4, and the placeholders have printed on row 3
C36_Witness ==
    /\ Len(tree) = 3
    /\ tree[1].size_x = 10 /\ tree[1].size_y = 5
    /\ StatusBarLaidOut
    /\ Len(screen) > 1
    /\ screen[Len(screen)] = [x |-> 0, y |-> 4, text |-> "foobar"]
    /\ \E i \in 1..Len(screen) : screen[i].y = 3 /\ screen[i].text = "{"

----------------------------------------------------------------------------
(* C34 *)

\* the Widget classes of the object's hierarchy whose body annotates name
\* with Widget.Signal
DeclaringClasses(name) ==
    { i \in 1..Len(obj.mro) :
        /\ obj.mro[i].is_widget
        /\ \E j \in 1..Len(obj.mro[i].annotations) :
              obj.mro[i].annotations[j] = <<name, "Signal">> }

\* the names a class body may annotate
SignalAttributeNames == {"Signal", "on_foo", "on_bar"}

\* some signal name is declared in two classes of the hierarchy
DeclaredTwice ==
    \E name \in SignalAttributeNames : Cardinality(DeclaringClasses(name)) >= 2

----------------------------------------------------------------------------
(* C35 *)

----------------------------------------------------------------------------
(* C31 *)

\* C31: gui_main ends through ExitApp only; when an input handler or the
\* timer's callback ends with any other exception, the exception is shown
\* in a popover that waits for a key, and the loop goes on.
C31_OnlyExitAppEndsTheLoop ==
    /\ [][(Running(main) /\ ~Running(main')) => ret' = "ExitApp"]_vars
    /\ [][(AppOnInput("Exception") /\ main.key # "q") =>
            main'.pc = "popover"]_vars
    /\ [][AppCallbackDone("Exception") => main'.pc = "popover"]_vars

----------------------------------------------------------------------------
(* C32 *)

\* C32: sigwinch_handler sets the flag; a paint of the main window that
\* finds the flag set lays the window out for the size the terminal has at
\* that moment before it paints, and every paint leaves the flag clear;
\* while the layout is not the one for the terminal's size a notification
\* or the flag is pending, and while the flag is set a repaint is scheduled.
C32_ResizeIsNeverLost ==
    /\ [][SigwinchHandler => main'.resized]_vars
    /\ [][(Paint \/ PaintTask) =>
            /\ ~main'.resized
            /\ main.resized => main'.layout = main.term
            /\ ~main.resized => main'.layout = main.layout
            /\ main'.painted = main'.layout]_vars
    /\ [](Running(main) /\ main.layout # main.term =>
            main.sigwinch > 0 \/ main.resized)
    /\ [](Running(main) /\ main.resized => main.paint_tasks > 0)

\* a resize arrived while gui_main was about to paint: its handler has run,
\* the paint of gui_main has laid the window out for the new size, and the
\* repaint the handler scheduled is still to run
C32_Witness ==
    /\ main.pc = "wait_key"
    /\ main.term = <<40, 10>>
    /\ main.layout = <<40, 10>>
    /\ main.painted = <<40, 10>>
    /\ ~main.resized
    /\ main.sigwinch = 0
    /\ main.paint_tasks = 1

----------------------------------------------------------------------------
(* C33 *)

\* C33: while gui_main awaits the key, the event loop runs what is ready: a
\* pending resize notification, a scheduled repaint and the timer's handle
\* can each be run before the key arrives; the worker that reads the key
\* changes nothing but its own result.
C33_LoopRunsWhileWaitingForAKey ==
    /\ [](main.pc = "wait_key" /\ main.sigwinch > 0
             /\ main.paint_tasks < MaxPending => ENABLED SigwinchHandler)
    /\ [](main.pc = "wait_key" /\ main.paint_tasks > 0 => ENABLED PaintTask)
    /\ [](main.pc = "wait_key" /\ timer.handle.state = "pending"
             /\ loop.call_count < MaxCalls /\ loop.tasks < MaxPending =>
            ENABLED AppTick)
    /\ [](main.pc = "wait_key" /\ loop.tasks > 0 =>
            ENABLED AppCallbackDone("returned"))
    /\ [][(\E key \in AppKeys : KeyPressed(key)) =>
            /\ main.pc = "wait_key"
            /\ [main' EXCEPT !.worker = main.worker, !.key = main.key] = main
            /\ UNCHANGED <<tree, screen, multiview, timer, loop>>]_vars

\* gui_main is waiting for a key that the worker has not read yet, the watch
\* timer has ticked twice, and a resize notification is pending
C33_Witness ==
    /\ main.pc = "wait_key"
    /\ main.worker = "reading"
    /\ ~timer.stopped
    /\ timer.handle.state = "pending"
    /\ loop.now >= 2 * Interval
    /\ main.sigwinch = 1

====
